---- MODULE Spec2Model ----
(***************************************************************************)
(* Model of the Coursera link harvester (src/extract_course_links.py) and  *)
(* of the URL-list loader of the detail-page scraper                       *)
(* (src/scrape_courses_to_sheet2.py).                                      *)
(*                                                                         *)
(* Text is modelled as sequences of one-character strings, so that the     *)
(* write / reload round trip of the durable link file (write link + "\n",  *)
(* reload with strip() and startswith("http")) is computed, not assumed.   *)
(***************************************************************************)
EXTENDS Integers, Sequences, FiniteSets, TLC

\* ------------------------------------------------------------------------
\* Bounds of the model
\* ------------------------------------------------------------------------

\* Safety cap on pages per category.  The source sets 500
\* (src/extract_course_links.py:41); the model scales it down.
MAX_PAGES == 2

\* Number of successive runs of the harvester script against the same file.
MaxRuns == 2

\* ------------------------------------------------------------------------
\* Text helpers (Python str semantics)
\* ------------------------------------------------------------------------

\* Characters in ascending code-point order: what sorted() compares by.
CodePoints ==
    <<"\t", "\n", "\r", " ", "#", "(", ")", ",", "-", ".", "/",
      "0", "1", "2", "3", "4", "5", "6", "7", "8", "9", ":", "=",
      "A", "D", "E", "N", "R", "S", "T", "U", "[", "]", "_",
      "a", "b", "c", "d", "e", "g", "h", "i", "l", "n", "o", "p", "q",
      "r", "s", "t", "u", "w", "x">>

Ord(c) == CHOOSE i \in 1..Len(CodePoints) : CodePoints[i] = c

\* str.strip() with no argument strips these from both ends.
Whitespace == {" ", "\t", "\n", "\r"}

MinOf(S) == CHOOSE x \in S : \A y \in S : x <= y

MaxOf(S) == CHOOSE x \in S : \A y \in S : y <= x

\* s.strip()
Strip(s) ==
    IF \A i \in 1..Len(s) : s[i] \in Whitespace THEN <<>>
    ELSE LET first == CHOOSE i \in 1..Len(s) :
                          s[i] \notin Whitespace /\ \A j \in 1..(i - 1) : s[j] \in Whitespace
             last  == CHOOSE i \in 1..Len(s) :
                          s[i] \notin Whitespace /\ \A j \in (i + 1)..Len(s) : s[j] \in Whitespace
         IN  SubSeq(s, first, last)

\* s.startswith(p)
StartsWith(s, p) == Len(s) >= Len(p) /\ SubSeq(s, 1, Len(p)) = p

\* p in s  (substring test, as XPath contains())
Contains(s, p) ==
    \E i \in 1..(Len(s) - Len(p) + 1) : SubSeq(s, i, i + Len(p) - 1) = p

\* a < b for Python strings
LexLess(a, b) ==
    LET n == IF Len(a) < Len(b) THEN Len(a) ELSE Len(b)
        d == {i \in 1..n : a[i] # b[i]}
    IN  IF d = {} THEN Len(a) < Len(b)
        ELSE Ord(a[MinOf(d)]) < Ord(b[MinOf(d)])

\* sorted(S) for a set of strings
Sorted(S) ==
    [i \in 1..Cardinality(S) |->
        CHOOSE x \in S : Cardinality({y \in S : LexLess(y, x)}) = i - 1]

RECURSIVE Flatten(_)
\* "".join(seq)
Flatten(ss) == IF ss = <<>> THEN <<>> ELSE Head(ss) \o Flatten(Tail(ss))

Digit(d) == <<"0", "1", "2", "3", "4", "5", "6", "7", "8", "9">>[d + 1]

RECURSIVE Decimal(_)
\* str(n) for n >= 0, as an f-string formats an int
Decimal(n) == IF n < 10 THEN <<Digit(n)>> ELSE Decimal(n \div 10) \o <<Digit(n % 10)>>

\* A text file: its complete lines (each without its "\n") and the
\* characters after the last "\n".
EmptyFile == [lines |-> <<>>, tail |-> <<>>]

\* f.write(text) followed by flush, on a file opened for appending: every
\* "\n" of the text completes a line.
Write(f, text) ==
    LET nl == {i \in 1..Len(text) : text[i] = "\n"}
        NthNl(j) == CHOOSE i \in nl : Cardinality({t \in nl : t < i}) = j - 1
        completed ==
            [j \in 1..Cardinality(nl) |->
                IF j = 1 THEN f.tail \o SubSeq(text, 1, NthNl(1) - 1)
                ELSE SubSeq(text, NthNl(j - 1) + 1, NthNl(j) - 1)]
    IN  IF nl = {} THEN [lines |-> f.lines, tail |-> f.tail \o text]
        ELSE [lines |-> f.lines \o completed,
              tail  |-> SubSeq(text, MaxOf(nl) + 1, Len(text))]

\* The lines a text file yields when iterated: each line keeps its "\n";
\* a last line without "\n" is yielded too.
FileLines(f) ==
    [k \in 1..Len(f.lines) |-> Append(f.lines[k], "\n")]
    \o (IF f.tail = <<>> THEN <<>> ELSE <<f.tail>>)

Range(q) == {q[i] : i \in 1..Len(q)}

\* ------------------------------------------------------------------------
\* Literals of the source
\* ------------------------------------------------------------------------

\* "https://www.coursera.org"
Origin ==
    <<"h","t","t","p","s",":","/","/","w","w","w",".","c","o","u","r","s","e",
      "r","a",".","o","r","g">>

\* "http"
HttpPrefix == <<"h","t","t","p">>

\* "#"
CommentPrefix == <<"#">>

\* '/learn/' of FALLBACK_LINK_XPATH
LearnSegment == <<"/","l","e","a","r","n","/">>

\* now_str(): "%Y-%m-%d %H:%M:%S" of the clock
now_str == <<"2","0","2","6","-","1","1","-","0","6"," ","0","9",":","0","2",":","0","0">>

\* f"{duration_sec:.2f}" of the elapsed wall time
duration_str == <<"1",".","5","0">>

\* f"\n---- RUN START [{start_ts}] ----\n"
RunHeaderText(start_ts) ==
    <<"\n","-","-","-","-"," ","R","U","N"," ","S","T","A","R","T"," ","[">>
    \o start_ts \o <<"]"," ","-","-","-","-","\n">>

\* f"---- RUN END   [{end_ts}] (new_written={total_new}, unique_all={total_unique}, duration={duration_sec:.2f}s) ----\n"
RunFooterText(end_ts, total_new, total_unique) ==
    <<"-","-","-","-"," ","R","U","N"," ","E","N","D"," "," "," ","[">>
    \o end_ts
    \o <<"]"," ","(","n","e","w","_","w","r","i","t","t","e","n","=">>
    \o Decimal(total_new)
    \o <<","," ","u","n","i","q","u","e","_","a","l","l","=">>
    \o Decimal(total_unique)
    \o <<","," ","d","u","r","a","t","i","o","n","=">>
    \o duration_str
    \o <<"s",")"," ","-","-","-","-","\n">>

\* ------------------------------------------------------------------------
\* Durable link file (Dedup Store)
\* ------------------------------------------------------------------------

\* load_already_written: the stripped lines that start with "http".
\* A missing file is the empty text here and gives the empty set.
load_already_written(f) ==
    {Strip(l) : l \in {m \in Range(FileLines(f)) : StartsWith(Strip(m), HttpPrefix)}}

\* load_urls of the detail-page scraper: every stripped line that is not
\* empty after stripping and whose raw text does not start with "#".
load_urls(f) ==
    LET kept == SelectSeq(FileLines(f),
                          LAMBDA l : Strip(l) # <<>> /\ ~StartsWith(l, CommentPrefix))
    IN  [k \in 1..Len(kept) |-> Strip(kept[k])]

\* The lines append_links writes for `links`, in the order it writes them:
\* sorted(links), skipping what is already in the set.
NewLinksInOrder(links, written) ==
    SelectSeq(Sorted(links), LAMBDA l : l \notin written)

\* The text append_links writes.
AppendLinksText(links, written) ==
    Flatten([i \in 1..Len(NewLinksInOrder(links, written)) |->
                NewLinksInOrder(links, written)[i] \o <<"\n">>])

\* append_links' return value: new_count.
AppendLinksCount(links, written) == Len(NewLinksInOrder(links, written))

\* Mutant: the set is replaced by the page's links instead of extended.
AppendLinksSetOverwrite(links, written) == links

\* Mutant: the set is left as it was.
AppendLinksSetKept(links, written) == written

\* append_links' effect on the in-memory set.
AppendLinksSet(links, written) == written \cup links

\* ------------------------------------------------------------------------
\* Rendered documents and the Link Collector
\* ------------------------------------------------------------------------

\* A rendered listing page is the list of its anchors: the href attribute as
\* the parser returns it (verbatim) and whether the anchor sits at the
\* absolute path of ABS_LINK_XPATH.
Anchor(h, a) == [href |-> h, abs |-> a]

HrefA == <<"/","l","e","a","r","n","/","a">>

HrefB == <<"/","l","e","a","r","n","/","b">>

\* an absolute href
HrefC == Origin \o <<"/","l","e","a","r","n","/","c">>

\* href="/learn/d " : an attribute value with a trailing blank
HrefPadded == <<"/","l","e","a","r","n","/","d"," ">>

\* a category chip, not a course
HrefBrowse == <<"/","b","r","o","w","s","e","/","x">>

\* primary layout: the course cards sit at the absolute path
DocPrimary == <<Anchor(HrefA, TRUE), Anchor(HrefB, TRUE), Anchor(HrefBrowse, FALSE)>>

\* other layout: nothing at the absolute path, one course listed twice
DocVariant ==
    <<Anchor(HrefB, FALSE), Anchor(HrefC, FALSE), Anchor(HrefBrowse, FALSE),
      Anchor(HrefB, FALSE)>>

\* a page with no course link at all
DocEmpty == <<Anchor(HrefBrowse, FALSE)>>

\* a card whose href carries a trailing blank, and one with an empty href
DocPadded == <<Anchor(HrefPadded, TRUE), Anchor(<<>>, TRUE), Anchor(HrefA, FALSE)>>

\* tree.xpath(ABS_LINK_XPATH)
AbsLinks(doc) == SelectSeq(doc, LAMBDA a : a.abs)

\* tree.xpath(FALLBACK_LINK_XPATH)
FallbackLinks(doc) == SelectSeq(doc, LAMBDA a : Contains(a.href, LearnSegment))

\* Mutant: the fallback locator is applied whatever the primary one yields.
extract_links_from_page_sourceMerged(doc) ==
    LET links == AbsLinks(doc) \o FallbackLinks(doc)
        hrefs == {links[i].href : i \in 1..Len(links)} \ {<<>>}
    IN  {IF StartsWith(h, HttpPrefix) THEN h ELSE Origin \o h : h \in hrefs}

\* extract_links_from_page_source
extract_links_from_page_source(doc) ==
    LET links == IF AbsLinks(doc) = <<>> THEN FallbackLinks(doc) ELSE AbsLinks(doc)
        hrefs == {links[i].href : i \in 1..Len(links)} \ {<<>>}
    IN  {IF StartsWith(h, HttpPrefix) THEN h ELSE Origin \o h : h \in hrefs}

\* driver.find_elements(By.XPATH, "//a[contains(@href, '/learn/')]") is non-empty
HasLearnAnchor(doc) == FallbackLinks(doc) # <<>>

\* ------------------------------------------------------------------------
\* The "next" control
\* ------------------------------------------------------------------------

\* What one locator finds: no element (the wait times out), or the first
\* matching element with its disabled attribute (None or set) and its
\* aria-disabled attribute.
NoElement == [present |-> FALSE, disabled |-> FALSE, aria |-> "none"]

Enabled == [present |-> TRUE, disabled |-> FALSE, aria |-> "none"]

AriaFalse == [present |-> TRUE, disabled |-> FALSE, aria |-> "false"]

Disabled == [present |-> TRUE, disabled |-> TRUE, aria |-> "none"]

AriaDisabled == [present |-> TRUE, disabled |-> FALSE, aria |-> "true"]

\* The locators in the order find_clickable_next tries them:
\* NEXT_BUTTON_XPATH_PRIMARY, then the five NEXT_BUTTON_FALLBACKS.
\* A pagination DOM is what each of them finds.
NextDoms ==
    { <<NoElement, NoElement, NoElement, NoElement, NoElement, NoElement>>,
      <<Enabled, Enabled, NoElement, NoElement, NoElement, NoElement>>,
      <<Disabled, NoElement, NoElement, NoElement, NoElement, NoElement>>,
      <<AriaDisabled, AriaDisabled, NoElement, NoElement, NoElement, NoElement>>,
      <<NoElement, NoElement, NoElement, AriaFalse, Enabled, NoElement>>,
      <<Disabled, AriaDisabled, NoElement, NoElement, NoElement, Enabled>> }

\* Mutant: only the disabled attribute is tested, aria-disabled is ignored.
EligibleIgnoringAria(e) == e.present /\ ~e.disabled

\* the test of lines 233 and 240
Eligible(e) == e.present /\ ~e.disabled /\ e.aria # "true"

\* find_clickable_next: the index of the locator whose element is returned,
\* 0 for None.
find_clickable_next(dom) ==
    IF \E i \in 1..Len(dom) : Eligible(dom[i])
    THEN MinOf({i \in 1..Len(dom) : Eligible(dom[i])})
    ELSE 0

\* click_next: the attempts made, each with its outcome, given whether the
\* scripted click and the element's own click() raise.
ClickAttempts(js_ok, native_ok) ==
    IF js_ok THEN <<[method |-> "script", ok |-> TRUE]>>
    ELSE <<[method |-> "script", ok |-> FALSE], [method |-> "native", ok |-> native_ok]>>

\* Mutant: success is reported whatever the attempts did.
click_nextAlwaysTrue(js_ok, native_ok) == TRUE

\* click_next's return value
click_next(js_ok, native_ok) ==
    ClickAttempts(js_ok, native_ok)[Len(ClickAttempts(js_ok, native_ok))].ok

\* ------------------------------------------------------------------------
\* The site: what the renderer serves
\* ------------------------------------------------------------------------

\* The categories the browse page lists, and the listing pages of each.
\* Page k of a category is pages[((k - 1) % Len(pages)) + 1]: the pager
\* never runs out by itself.
Sites ==
    << [cats  |-> <<"business", "data">>,
        pages |-> [business |-> <<DocPrimary, DocVariant>>, data |-> <<DocVariant, DocEmpty>>]],
       [cats  |-> <<"business", "data">>,
        pages |-> [business |-> <<DocPadded, DocPrimary>>, data |-> <<DocEmpty>>]] >>

Document(s, cat, k) ==
    LET ps == Sites[s].pages[cat] IN ps[((k - 1) % Len(ps)) + 1]

\* ------------------------------------------------------------------------
\* State
\* ------------------------------------------------------------------------

VARIABLES
    site,                   \* which of Sites the renderer serves (fixed)
    file,                   \* content of OUT_PATH (empty: no file yet)
    run,                    \* runs of the script started so far
    pc,                     \* position of the script
    categories,             \* categories discovered by this run, in dict order
    cat_idx,                \* position of the for loop over categories
    browser_page,           \* listing page the browser currently shows
    page_index,             \* scrape_category: page_index
    page_links,             \* scrape_category: page_links of the current page
    all_links_global,       \* all_links_global
    already_written,        \* already_written
    new_written,            \* scrape_category: new_written of the current page
    total_new_written,      \* scrape_category: total_new_written
    total_new_written_run,  \* main: total_new_written_run
    old_anchor,             \* scrape_category: old_anchor is not None
    next_dom,               \* the pagination DOM find_clickable_next looked at
    next_btn,               \* scrape_category: next_btn (locator index, 0: None)
    click_log,              \* attempts of the last click_next call
    clicked,                \* scrape_category: clicked
    reason,                 \* how the current category's loop ended
    \* history, for stating properties
    store_at_start,         \* what load_already_written returned in this run
    confirmed,              \* links of every append_links call that returned
    confirmed_prev,         \* the same, at the start of this run
    interrupted,            \* the previous run was interrupted
    cat_links,              \* links extracted in the current category
    extracted_count,        \* pages extracted in the current category
    advances,               \* post-click waits done in the current category
    started,                \* categories scrape_category was called for
    reported_new            \* total_new passed to append_run_footer

\* The state of the link harvester.
harvesterVars ==
    <<site, file, run, pc, categories, cat_idx, browser_page, page_index,
      page_links, all_links_global, already_written, new_written,
      total_new_written, total_new_written_run, old_anchor, next_dom, next_btn,
      click_log, clicked, reason, store_at_start, confirmed, confirmed_prev,
      interrupted, cat_links, extracted_count, advances, started, reported_new>>

VARIABLES
    html_text,              \* extract_by_xpaths: the document it is given
    row,                    \* extract_by_xpaths: the row it returned
    raw_debug,              \* extract_by_xpaths: raw_debug["description_source"]
    urls,                   \* main: the list load_urls returned
    main_pc,                \* main: position of the scraper script
    url_idx,                \* main: i of the for loop over urls
    ENABLE_SHEETS_FLAG,     \* main: ENABLE_SHEETS_FLAG
    batch,                  \* main: batch
    sheet,                  \* the worksheet: the rows of every append, in order
    fetch_log,              \* fetch_url: each attempt's response and sleep
    attempted,              \* the i of every fetch_url call, in order
    exc,                    \* the exception in flight ("": none)
    extracted,              \* the i and the row of every extract_by_xpaths return
    sink_raised             \* an append_rows call has raised

fieldVars == <<html_text, row, raw_debug>>

mainVars ==
    <<urls, main_pc, url_idx, ENABLE_SHEETS_FLAG, batch, sheet, fetch_log,
      attempted, exc, extracted, sink_raised>>

\* The state of the detail-page scraper.
scraperVars == <<fieldVars, mainVars>>

vars == <<harvesterVars, scraperVars>>

pageVars == <<page_links, new_written, old_anchor>>

nextVars == <<next_dom, next_btn, click_log, clicked>>

historyVars == <<store_at_start, confirmed_prev, interrupted>>

NoDom == <<>>

\* The harvester before its first run.
HarvesterInit ==
    /\ site \in 1..Len(Sites)
    /\ file = EmptyFile
    /\ run = 0
    /\ pc = "init"
    /\ categories = <<>>
    /\ cat_idx = 0
    /\ browser_page = 0
    /\ page_index = 0
    /\ page_links = {}
    /\ all_links_global = {}
    /\ already_written = {}
    /\ new_written = 0
    /\ total_new_written = 0
    /\ total_new_written_run = 0
    /\ old_anchor = FALSE
    /\ next_dom = NoDom
    /\ next_btn = 0
    /\ click_log = <<>>
    /\ clicked = FALSE
    /\ reason = "none"
    /\ store_at_start = {}
    /\ confirmed = {}
    /\ confirmed_prev = {}
    /\ interrupted = FALSE
    /\ cat_links = {}
    /\ extracted_count = 0
    /\ advances = 0
    /\ started = <<>>
    /\ reported_new = 0

\* No document, no row.
NoPage == <<>>

NoRow == <<>>

\* main of the scraper has not been started.
MainIdle ==
    /\ urls = <<>>
    /\ main_pc = "idle"
    /\ url_idx = 0
    /\ ENABLE_SHEETS_FLAG = FALSE
    /\ batch = <<>>
    /\ sheet = <<>>
    /\ fetch_log = <<>>
    /\ attempted = <<>>
    /\ exc = ""
    /\ extracted = <<>>
    /\ sink_raised = FALSE

\* The detail-page scraper is not running.
ScraperIdle ==
    /\ html_text = NoPage
    /\ row = NoRow
    /\ raw_debug = <<>>
    /\ MainIdle

Init == HarvesterInit /\ ScraperIdle

\* ------------------------------------------------------------------------
\* The script, position by position
\* ------------------------------------------------------------------------

\* Lines 330-352: a run of the script starts (the first one, or a rerun after
\* the previous run ended, failed or was interrupted): reload the dedup set,
\* append the RUN START annotation, discover the categories.  The discovery
\* is inside the try of line 337, which has a finally and no except: when
\* it raises (driver.get, find_elements), the browser is closed and the
\* script ends by the exception.
RunStart ==
    /\ pc \in {"init", "ended", "crashed", "failed"}
    /\ run < MaxRuns
    /\ run' = run + 1
    /\ all_links_global' = {}
    /\ already_written' = load_already_written(file)
    /\ store_at_start' = load_already_written(file)
    /\ file' = Write(file, RunHeaderText(now_str))
    /\ \E found \in {Sites[site].cats, <<>>}, raised \in BOOLEAN :
          IF raised
          THEN categories' = <<>> /\ pc' = "failed" /\ cat_idx' = 0
          ELSE /\ categories' = found
               /\ IF found = <<>>
                  THEN pc' = "quit" /\ cat_idx' = 0
                  ELSE pc' = "start" /\ cat_idx' = 1
    /\ total_new_written_run' = 0
    /\ total_new_written' = 0
    /\ browser_page' = 0
    /\ page_index' = 0
    /\ page_links' = {}
    /\ new_written' = 0
    /\ old_anchor' = FALSE
    /\ next_dom' = NoDom
    /\ next_btn' = 0
    /\ click_log' = <<>>
    /\ clicked' = FALSE
    /\ reason' = "none"
    /\ confirmed_prev' = confirmed
    /\ interrupted' = (pc \in {"crashed", "failed"})
    /\ cat_links' = {}
    /\ extracted_count' = 0
    /\ advances' = 0
    /\ started' = <<>>
    /\ reported_new' = 0
    /\ UNCHANGED <<scraperVars, site, confirmed>>

\* Lines 358, 272-277: scrape_category is called for the next category and
\* loads its first page.
ScrapeStart ==
    /\ pc = "start"
    /\ pc' = "loaded"
    /\ browser_page' = 1
    /\ page_index' = 1
    /\ total_new_written' = 0
    /\ reason' = "none"
    /\ cat_links' = {}
    /\ extracted_count' = 0
    /\ advances' = 0
    /\ started' = Append(started, categories[cat_idx])
    /\ UNCHANGED <<scraperVars, site, file, run, categories, cat_idx, all_links_global,
                   already_written, total_new_written_run, confirmed, reported_new>>
    /\ UNCHANGED <<pageVars, nextVars, historyVars>>

\* Mutant: the loop test is off by one.
LoopContinuesOffByOne == page_index < MAX_PAGES

\* The loop test of line 279.
LoopContinues == page_index <= MAX_PAGES

\* Lines 279-286: the loop goes on; parse the current page and add its links
\* to the global set.
Extract ==
    /\ pc = "loaded"
    /\ LoopContinues
    /\ LET links == extract_links_from_page_source(
                        Document(site, categories[cat_idx], browser_page))
       IN  /\ page_links' = links
           /\ all_links_global' = all_links_global \cup links
           /\ cat_links' = cat_links \cup links
    /\ extracted_count' = extracted_count + 1
    /\ pc' = "extracted"
    /\ UNCHANGED <<scraperVars, site, file, run, categories, cat_idx, browser_page, page_index,
                   already_written, new_written, total_new_written,
                   total_new_written_run, old_anchor, reason, confirmed, advances,
                   started, reported_new>>
    /\ UNCHANGED <<nextVars, historyVars>>

\* Lines 279, 325: the loop test fails; the category ends on the page cap.
LoopExit ==
    /\ pc = "loaded"
    /\ ~LoopContinues
    /\ reason' = "MAX_PAGES"
    /\ pc' = "cat_done"
    /\ UNCHANGED <<scraperVars, site, file, run, categories, cat_idx, browser_page, page_index,
                   all_links_global, already_written, total_new_written,
                   total_new_written_run, confirmed, cat_links, extracted_count,
                   advances, started, reported_new>>
    /\ UNCHANGED <<pageVars, nextVars, historyVars>>

\* Lines 288-301: append_links writes and flushes the page's new links, then
\* the reference anchor is captured.
Persist ==
    /\ pc = "extracted"
    /\ file' = Write(file, AppendLinksText(page_links, already_written))
    /\ new_written' = AppendLinksCount(page_links, already_written)
    /\ already_written' = AppendLinksSet(page_links, already_written)
    /\ total_new_written' = total_new_written + AppendLinksCount(page_links, already_written)
    /\ old_anchor' = HasLearnAnchor(Document(site, categories[cat_idx], browser_page))
    /\ confirmed' = confirmed \cup page_links
    /\ pc' = "persisted"
    /\ UNCHANGED <<scraperVars, site, run, categories, cat_idx, browser_page, page_index,
                   page_links, all_links_global, total_new_written_run, reason,
                   cat_links, extracted_count, advances, started, reported_new>>
    /\ UNCHANGED <<nextVars, historyVars>>

\* Lines 304-307, from position `at`: look for the next control; none
\* eligible ends the category.
FindNextAt(at) ==
    /\ pc = at
    /\ \E dom \in NextDoms :
          /\ next_dom' = dom
          /\ next_btn' = find_clickable_next(dom)
          /\ IF find_clickable_next(dom) = 0
             THEN pc' = "cat_done" /\ reason' = "NO_NEXT"
             ELSE pc' = "found" /\ reason' = reason
    /\ click_log' = <<>>
    /\ clicked' = FALSE
    /\ UNCHANGED <<scraperVars, site, file, run, categories, cat_idx, browser_page, page_index,
                   all_links_global, already_written, total_new_written,
                   total_new_written_run, confirmed, cat_links, extracted_count,
                   advances, started, reported_new>>
    /\ UNCHANGED <<pageVars, historyVars>>

\* Mutant: the next control is looked for before the page is persisted.
FindNextBeforePersist == FindNextAt("extracted")

FindNext == FindNextAt("persisted")

\* Lines 308-311: activate the control; failure by both methods ends the
\* category.
ClickNext ==
    /\ pc = "found"
    /\ \E js_ok \in BOOLEAN, native_ok \in BOOLEAN :
          /\ click_log' = ClickAttempts(js_ok, native_ok)
          /\ clicked' = click_next(js_ok, native_ok)
          /\ IF click_next(js_ok, native_ok)
             THEN pc' = "clicked" /\ reason' = reason
             ELSE pc' = "cat_done" /\ reason' = "CLICK_FAILED"
    /\ UNCHANGED <<scraperVars, site, file, run, categories, cat_idx, browser_page, page_index,
                   all_links_global, already_written, total_new_written,
                   total_new_written_run, next_dom, next_btn, confirmed, cat_links,
                   extracted_count, advances, started, reported_new>>
    /\ UNCHANGED <<pageVars, historyVars>>

\* Mutant: the wait goes back to the loop without counting the page.
WaitAdvanceNoCount ==
    /\ pc = "clicked"
    /\ \E stale \in BOOLEAN, changed \in BOOLEAN :
          /\ stale => old_anchor /\ changed
          /\ browser_page' = IF changed THEN browser_page + 1 ELSE browser_page
    /\ pc' = "loaded"
    /\ next_dom' = NoDom
    /\ next_btn' = 0
    /\ click_log' = <<>>
    /\ clicked' = FALSE
    /\ UNCHANGED <<scraperVars, site, file, run, categories, cat_idx, all_links_global,
                   already_written, total_new_written, total_new_written_run,
                   reason, confirmed, cat_links, extracted_count, started,
                   reported_new, page_index, advances>>
    /\ UNCHANGED <<pageVars, historyVars>>

\* Lines 313-323: wait for the reference anchor to go stale, or sleep when
\* none was captured or the wait timed out; then count the page.  The page
\* has changed when the anchor went stale; after a sleep it may or may not
\* have.
WaitAdvance ==
    /\ pc = "clicked"
    /\ \E stale \in BOOLEAN, changed \in BOOLEAN :
          /\ stale => old_anchor /\ changed
          /\ browser_page' = IF changed THEN browser_page + 1 ELSE browser_page
    /\ page_index' = page_index + 1
    /\ advances' = advances + 1
    /\ pc' = "loaded"
    /\ next_dom' = NoDom
    /\ next_btn' = 0
    /\ click_log' = <<>>
    /\ clicked' = FALSE
    /\ UNCHANGED <<scraperVars, site, file, run, categories, cat_idx, all_links_global,
                   already_written, total_new_written, total_new_written_run,
                   reason, confirmed, cat_links, extracted_count, started,
                   reported_new>>
    /\ UNCHANGED <<pageVars, historyVars>>

\* Mutant: a category that did not end on a missing next control ends the run.
MoreCategoriesUnlessFailed == cat_idx < Len(categories) /\ reason = "NO_NEXT"

\* The for loop of line 356 has another category to take.
MoreCategories == cat_idx < Len(categories)

\* Lines 325, 356-360: scrape_category returns; the for loop takes the next
\* category, or ends.
CategoryReturn ==
    /\ pc = "cat_done"
    /\ total_new_written_run' = total_new_written_run + total_new_written
    /\ IF MoreCategories
       THEN pc' = "start" /\ cat_idx' = cat_idx + 1
       ELSE pc' = "quit" /\ cat_idx' = cat_idx
    /\ next_dom' = NoDom
    /\ next_btn' = 0
    /\ click_log' = <<>>
    /\ clicked' = FALSE
    /\ UNCHANGED <<scraperVars, site, file, run, categories, browser_page, page_index,
                   all_links_global, already_written, total_new_written, reason,
                   confirmed, cat_links, extracted_count, advances, started,
                   reported_new>>
    /\ UNCHANGED <<pageVars, historyVars>>

\* The total_new argument of the append_run_footer call of line 374.
FooterTotalNew == Cardinality(already_written)

\* Lines 362-376: the browser is closed and the RUN END annotation appended.
RunEnd ==
    /\ pc = "quit"
    /\ reported_new' = FooterTotalNew
    /\ file' = Write(file, RunFooterText(now_str, FooterTotalNew,
                                         Cardinality(all_links_global)))
    /\ pc' = "ended"
    /\ UNCHANGED <<scraperVars, site, run, categories, cat_idx, browser_page, page_index,
                   all_links_global, already_written, total_new_written,
                   total_new_written_run, reason, confirmed, cat_links,
                   extracted_count, advances, started>>
    /\ UNCHANGED <<pageVars, nextVars, historyVars>>

\* Lines 337-363: an exception leaves scrape_category, which catches none
\* of driver.get (line 272), driver.page_source and html.fromstring (lines
\* 281-282, 209) and the file writes of append_links (line 288).  The for
\* loop is left, the finally clause closes the browser, and the script ends
\* by the exception: the lines after the try, the RUN END annotation among
\* them, are not executed.  Inside append_links any prefix of the page's
\* new lines may have reached the file.
Uncaught ==
    /\ pc \in {"start", "loaded", "extracted"}
    /\ pc = "loaded" => LoopContinues
    /\ IF pc = "extracted"
       THEN \E n \in 0..AppendLinksCount(page_links, already_written) :
               file' = Write(file, Flatten([i \in 1..n |->
                          NewLinksInOrder(page_links, already_written)[i] \o <<"\n">>]))
       ELSE file' = file
    /\ pc' = "failed"
    /\ categories' = <<>>
    /\ cat_idx' = 0
    /\ browser_page' = 0
    /\ page_index' = 0
    /\ page_links' = {}
    /\ all_links_global' = {}
    /\ already_written' = {}
    /\ new_written' = 0
    /\ total_new_written' = 0
    /\ total_new_written_run' = 0
    /\ old_anchor' = FALSE
    /\ next_dom' = NoDom
    /\ next_btn' = 0
    /\ click_log' = <<>>
    /\ clicked' = FALSE
    /\ reason' = "none"
    /\ cat_links' = {}
    /\ extracted_count' = 0
    /\ advances' = 0
    /\ started' = <<>>
    /\ reported_new' = 0
    /\ UNCHANGED <<scraperVars, site, run, confirmed, historyVars>>

\* The process is interrupted (killed, or Ctrl-C) somewhere in a run.  What
\* was flushed stays in the file, no RUN END annotation is written, and the
\* memory of the process is gone.  Inside append_links the lines written so
\* far may have reached the file: any prefix of the page's new lines.
Interrupt ==
    /\ pc \in {"start", "loaded", "extracted", "persisted", "found", "clicked",
               "cat_done", "quit"}
    /\ IF pc = "extracted"
       THEN \E n \in 0..AppendLinksCount(page_links, already_written) :
               file' = Write(file, Flatten([i \in 1..n |->
                          NewLinksInOrder(page_links, already_written)[i] \o <<"\n">>]))
       ELSE file' = file
    /\ pc' = "crashed"
    /\ categories' = <<>>
    /\ cat_idx' = 0
    /\ browser_page' = 0
    /\ page_index' = 0
    /\ page_links' = {}
    /\ all_links_global' = {}
    /\ already_written' = {}
    /\ new_written' = 0
    /\ total_new_written' = 0
    /\ total_new_written_run' = 0
    /\ old_anchor' = FALSE
    /\ next_dom' = NoDom
    /\ next_btn' = 0
    /\ click_log' = <<>>
    /\ clicked' = FALSE
    /\ reason' = "none"
    /\ cat_links' = {}
    /\ extracted_count' = 0
    /\ advances' = 0
    /\ started' = <<>>
    /\ reported_new' = 0
    /\ UNCHANGED <<scraperVars, site, run, confirmed, historyVars>>

Next ==
    \/ RunStart
    \/ ScrapeStart
    \/ Extract
    \/ LoopExit
    \/ Persist
    \/ FindNext
    \/ ClickNext
    \/ WaitAdvance
    \/ CategoryReturn
    \/ RunEnd
    \/ Uncaught
    \/ Interrupt

Spec == Init /\ [][Next]_vars

\* scrape_category is running.
Scraping == pc \in {"loaded", "extracted", "persisted", "found", "clicked"}

\* The script is running.
Running == pc \in {"start", "cat_done", "quit"} \/ Scraping

\* The positions of the script.
Positions ==
    {"init", "start", "loaded", "extracted", "persisted", "found", "clicked", "cat_done",
     "quit", "ended", "crashed", "failed"}

\* The running script leaves its position: by its next step, by an
\* exception, or by being interrupted.
Proceed == Running /\ pc' \in Positions /\ pc' # pc

\* The script is one thread that runs until it ends, and it never stands
\* still: every wait it makes is bounded (WebDriverWait(driver, 20), line
\* 62; time.sleep with a constant).  Nothing obliges a run to be started.
LiveSpec == Spec /\ WF_pc(Proceed)

\* ------------------------------------------------------------------------
\* Properties
\* ------------------------------------------------------------------------

\* How many lines of the file are exactly `u` followed by the line end.
TimesWritten(f, u) == Cardinality({k \in 1..Len(f.lines) : f.lines[k] = u})

\* The text of f is a prefix of the text of g.
IsPrefix(f, g) ==
    /\ Len(f.lines) <= Len(g.lines)
    /\ SubSeq(g.lines, 1, Len(f.lines)) = f.lines
    /\ LET rest == IF Len(g.lines) > Len(f.lines) THEN g.lines[Len(f.lines) + 1] ELSE g.tail
       IN  Len(f.tail) <= Len(rest) /\ SubSeq(rest, 1, Len(f.tail)) = f.tail

InCategory == pc \in {"loaded", "extracted", "persisted", "found", "clicked", "cat_done"}

\* C1 -- Idempotent dedup: when a second, uninterrupted run has collected
\* exactly the links the first, uninterrupted run collected (the same
\* pages), the second run has written no link line and every collected URL
\* stands in the file exactly once.
C1_IdempotentDedup ==
    (pc = "ended" /\ run = 2 /\ ~interrupted /\ all_links_global = confirmed_prev)
        => /\ total_new_written_run = 0
           /\ \A u \in all_links_global : TimesWritten(file, u) = 1

\* C2 -- Crash safety: in a run started after an interrupted one, every URL
\* whose append_links call had returned before is in the set
\* load_already_written returned, and none of them is written again.
C2_CrashSafety ==
    (run >= 2 /\ interrupted)
        => /\ confirmed_prev \subseteq store_at_start
           /\ \A u \in confirmed_prev : TimesWritten(file, u) = 1

\* Every link of the current page is in the accumulated set, in the dedup
\* set, and has its own line in the file.
PageDurable ==
    /\ page_links \subseteq all_links_global
    /\ page_links \subseteq already_written
    /\ \A l \in page_links : TimesWritten(file, l) >= 1

\* C3 -- Persist before advance: whenever the controller has looked for the
\* next control of the current page, or has tried to click it, the page's
\* links are already in the accumulated set and append_links has returned
\* for them (they are in the dedup set and in the file).
C3_PersistBeforeAdvance ==
    (next_dom # NoDom \/ click_log # <<>> \/ pc \in {"found", "clicked"})
        => /\ PageDurable
           /\ page_links \subseteq confirmed
           /\ extracted_count = page_index

\* a page that brought new links has been persisted and then left by a click
C3_Witness == pc = "clicked" /\ clicked /\ new_written > 0

\* C4 -- Pagination bound: inside a category the page counter is 1 plus the
\* number of advances and at most MAX_PAGES pages are extracted; a category
\* that ends on the cap has extracted exactly MAX_PAGES pages, after
\* MAX_PAGES advances, and the links of its pages are in the accumulated set.
C4_PaginationBound ==
    /\ InCategory => /\ page_index = advances + 1
                     /\ extracted_count <= MAX_PAGES
                     /\ (pc = "loaded" /\ advances = MAX_PAGES => ~ENABLED Extract)
    /\ (InCategory /\ reason = "MAX_PAGES")
          => /\ pc = "cat_done"
             /\ extracted_count = MAX_PAGES
             /\ advances = MAX_PAGES
             /\ page_index = MAX_PAGES + 1
             /\ cat_links \subseteq all_links_global

\* a category ended on the cap with links collected
C4_Witness == pc = "cat_done" /\ reason = "MAX_PAGES" /\ cat_links # {}

\* C5 -- Append-only store: no step of a running harvester removes an entry
\* from its in-memory dedup set, no step at all changes what the file holds
\* or removes a link line from it, and the links of a category that has
\* ended are in the dedup set and in the file.
C5_AppendOnly ==
    [][/\ (run' = run /\ pc' \notin {"crashed", "failed"}
              => already_written \subseteq already_written')
       /\ \/ file' = file
          \/ /\ IsPrefix(file, file')
             /\ load_already_written(file) \subseteq load_already_written(file')
       /\ (pc' = "cat_done" =>
              /\ cat_links' \subseteq already_written'
              /\ \A l \in cat_links' : TimesWritten(file', l) >= 1)]_vars

\* a category that collected links has ended by a failed click
C5_Witness == pc = "cat_done" /\ reason = "CLICK_FAILED" /\ cat_links # {}

\* present, without a disabled attribute, and aria-disabled is not "true"
NotMarkedDisabled(e) == e.present = TRUE /\ e.disabled = FALSE /\ ~(e.aria = "true")

\* C6 -- Next-control eligibility: the control find_clickable_next returned
\* is present and not marked disabled, and no locator tried before it found
\* such a control; when it returned none, no locator found such a control,
\* the category has ended with NO_NEXT and no activation was attempted.
C6_NextEligibility ==
    next_dom # NoDom
        => /\ next_btn \in 0..Len(next_dom)
           /\ next_btn # 0 =>
                 /\ NotMarkedDisabled(next_dom[next_btn])
                 /\ \A j \in 1..(next_btn - 1) : ~NotMarkedDisabled(next_dom[j])
           /\ next_btn = 0 =>
                 /\ \A j \in 1..Len(next_dom) : ~NotMarkedDisabled(next_dom[j])
                 /\ pc = "cat_done"
                 /\ reason = "NO_NEXT"
                 /\ click_log = <<>>
                 /\ ~clicked

\* the only controls present are marked disabled and the category has ended
C6_Witness ==
    /\ pc = "cat_done"
    /\ reason = "NO_NEXT"
    /\ next_dom # NoDom
    /\ \E j \in 1..Len(next_dom) : next_dom[j].present /\ next_dom[j].aria = "true"

\* C7 -- Activation failure: click_next tries the scripted click first and
\* the element's own click only if the first raised; it reports success
\* exactly when one attempt succeeded; after a failure the category has ended
\* with CLICK_FAILED, the page counter was not incremented, no wait was done
\* and no further page was extracted.
C7_ActivationFailure ==
    /\ click_log # <<>> =>
          /\ Len(click_log) \in {1, 2}
          /\ click_log[1].method = "script"
          /\ Len(click_log) = 1 => click_log[1].ok
          /\ Len(click_log) = 2 => ~click_log[1].ok /\ click_log[2].method = "native"
          /\ clicked = click_log[Len(click_log)].ok
          /\ clicked => pc = "clicked"
          /\ ~clicked => pc = "cat_done" /\ reason = "CLICK_FAILED"
    /\ pc = "clicked" => clicked /\ click_log # <<>>
    /\ (InCategory /\ reason = "CLICK_FAILED") =>
          /\ pc = "cat_done"
          /\ page_index = advances + 1
          /\ extracted_count = page_index
          /\ Len(click_log) = 2 /\ ~click_log[1].ok /\ ~click_log[2].ok

\* both click methods failed on the second page of a category
C7_Witness ==
    /\ pc = "cat_done"
    /\ reason = "CLICK_FAILED"
    /\ Len(click_log) = 2
    /\ page_index = 2

\* C8 -- Category isolation: the categories scraped in a run are the
\* discovered ones, once each, in order: while a category is being scraped
\* or has just ended, all categories before it were scraped; when the loop
\* over the categories is over, every discovered category was scraped.
C8_CategoryIsolation ==
    /\ Len(started) <= Len(categories)
    /\ \A i \in 1..Len(started) : started[i] = categories[i]
    /\ InCategory => Len(started) = cat_idx
    /\ pc = "start" => Len(started) = cat_idx - 1
    /\ pc \in {"quit", "ended"} => started = categories

\* the loop has taken the second category after the first ended on the cap
C8_Witness ==
    /\ pc = "start"
    /\ cat_idx = 2
    /\ reason = "MAX_PAGES"
    /\ started = <<categories[1]>>

\* "---- RUN " : how both annotation lines start
AnnotationMark == <<"-","-","-","-"," ","R","U","N"," ">>

\* C9 -- Annotation lines are never data: nothing the harvester reloads as
\* its dedup set and nothing the detail-page scraper loads as its URL list
\* is an annotation line or blank.
C9_AnnotationsNeverData ==
    /\ \A e \in load_already_written(file) :
          e # <<>> /\ ~StartsWith(e, AnnotationMark)
    /\ \A k \in 1..Len(load_urls(file)) :
          load_urls(file)[k] # <<>> /\ ~StartsWith(load_urls(file)[k], AnnotationMark)

\* C10 -- Written-count accuracy: append_links returns the number of links
\* it added to the dedup set, and at the end of a run the new_written figure
\* of the RUN END annotation and the sum of the per-category counts both
\* equal the number of URLs in the store now that were not there at run
\* start.
C10_WrittenCountAccuracy ==
    [][/\ (pc = "extracted" /\ pc' = "persisted") =>
             new_written' = Cardinality(page_links \ already_written)
       /\ pc' = "ended" =>
             /\ total_new_written_run' = Cardinality(already_written' \ store_at_start')
             /\ reported_new' = Cardinality(already_written' \ store_at_start')]_vars

\* The hrefs a locator returned, empty ones dropped, each absolute: taken as
\* it is when it starts with "http", else behind the site origin.
Absolute(found) ==
    {IF StartsWith(found[i].href, HttpPrefix) THEN found[i].href
     ELSE Origin \o found[i].href : i \in {j \in 1..Len(found) : found[j].href # <<>>}}

\* The page has been parsed and the browser still shows it.
OnPage == pc \in {"extracted", "persisted", "found", "clicked"}

\* C23 -- Link Collector: the links of a page are those of the fallback
\* locator exactly when the primary locator yields nothing, else those of
\* the primary locator; every one is an absolute URL, one entry per URL
\* however often the page lists it; they are a function of the document,
\* whatever the dedup set and the file hold.
C23_LinkCollector ==
    OnPage =>
        LET doc == Document(site, categories[cat_idx], browser_page)
        IN  /\ AbsLinks(doc) = <<>> => page_links = Absolute(FallbackLinks(doc))
            /\ AbsLinks(doc) # <<>> => page_links = Absolute(AbsLinks(doc))
            /\ \A l \in page_links : StartsWith(l, HttpPrefix)
            /\ Cardinality(page_links) <= Len(AbsLinks(doc)) + Len(FallbackLinks(doc))

\* The fallback locator has been used on a page that lists a course twice,
\* while the dedup set already held links.
C23_Witness ==
    /\ pc = "extracted"
    /\ already_written # {}
    /\ LET doc == Document(site, categories[cat_idx], browser_page)
       IN  /\ AbsLinks(doc) = <<>>
           /\ page_links # {}
           /\ Cardinality(page_links) < Len(FallbackLinks(doc))

\* C24 -- Store covers run set: once append_links has returned for the
\* page, every link of all_links_global is in already_written and has its
\* line in the file, through all pages and categories of the run.
C24_StoreCoversRunSet ==
    (pc \in {"loaded", "persisted", "found", "clicked", "cat_done", "start", "quit", "ended"})
        => /\ all_links_global \subseteq already_written
           /\ \A l \in all_links_global : TimesWritten(file, l) >= 1

\* A second run is over its categories; the store it loaded held links.
C24_Witness ==
    /\ pc = "quit"
    /\ run = 2
    /\ store_at_start # {}
    /\ Cardinality(all_links_global) >= 3

\* "---- RUN START " and "---- RUN END " : how the two annotations start.
RunStartMark == AnnotationMark \o <<"S","T","A","R","T"," ">>

RunEndMark == AnnotationMark \o <<"E","N","D"," ">>

\* The number of the last line of f that starts with mark (0: none).
LastLine(f, mark) ==
    MaxOf({0} \cup {k \in 1..Len(f.lines) : StartsWith(f.lines[k], mark)})

\* The link lines of f after line k.
LinkLinesAfter(f, k) ==
    {f.lines[j] : j \in {i \in (k + 1)..Len(f.lines) : StartsWith(f.lines[i], HttpPrefix)}}

\* C26 -- Run-annotation bracketing: the link lines a run has written are
\* all after its RUN START line; when the script has ended, by itself or by
\* an error raised in the discovery or in a category, the RUN END line of
\* the run is the last line of the file, after every link line.
C26_RunAnnotationBracketing ==
    /\ (pc \notin {"init", "crashed", "failed"}) =>
          /\ LastLine(file, RunStartMark) > 0
          /\ LinkLinesAfter(file, LastLine(file, RunStartMark))
                = already_written \ store_at_start
    /\ (pc \in {"ended", "failed"}) =>
          /\ file.tail = <<>>
          /\ LastLine(file, RunEndMark) = Len(file.lines)
          /\ LastLine(file, RunStartMark) < LastLine(file, RunEndMark)

\* C27 -- Harvester termination: whatever the renderer does, every wait
\* after a click, timed out or not, counts the page; scrape_category
\* extracts at most MAX_PAGES pages and every call of it comes to an end;
\* every run comes to an end.
C27_HarvesterTermination ==
    /\ [][(pc = "clicked" /\ pc' = "loaded") => page_index' = page_index + 1]_vars
    /\ [](Scraping => page_index <= MAX_PAGES + 1 /\ extracted_count <= MAX_PAGES)
    /\ Scraping ~> (pc \in {"cat_done", "crashed", "failed"})
    /\ Running ~> (pc \in {"ended", "crashed", "failed"})

\* A staleness wait timed out on a page that did not change, the page was
\* counted, and the run has come to its end with a category stopped by the
\* cap.
C27_Witness ==
    /\ pc = "ended"
    /\ reason = "MAX_PAGES"
    /\ old_anchor
    /\ browser_page < page_index - 1

\* ========================================================================
\* The detail-page scraper (src/scrape_courses_to_sheet2.py)
\* ========================================================================

\* ------------------------------------------------------------------------
\* Python values and regular expressions
\* ------------------------------------------------------------------------

\* A str, a float (whole part and decimal digits), an int, None.
PyStr(t) == [type |-> "str", v |-> t]

PyFloat(whole, frac) == [type |-> "float", v |-> <<whole, frac>>]

PyInt(n) == [type |-> "int", v |-> n]

PyNone == [type |-> "None", v |-> <<>>]

UpperCase == <<"A","B","C","D","E","F","G","H","I","J","K","L","M","N","O","P","Q","R","S","T",
      "U","V","W","X","Y","Z">>

LowerCase == <<"a","b","c","d","e","f","g","h","i","j","k","l","m","n","o","p","q","r","s","t",
      "u","v","w","x","y","z">>

DigitChars == {"0", "1", "2", "3", "4", "5", "6", "7", "8", "9"}

\* \w of a regular expression
WordChars == Range(UpperCase) \cup Range(LowerCase) \cup DigitChars \cup {"_"}

\* c.lower()
Lower(c) ==
    IF \E i \in 1..26 : UpperCase[i] = c
    THEN LowerCase[CHOOSE i \in 1..26 : UpperCase[i] = c]
    ELSE c

\* c.upper()
Upper(c) ==
    IF \E i \in 1..26 : LowerCase[i] = c
    THEN UpperCase[CHOOSE i \in 1..26 : LowerCase[i] = c]
    ELSE c

\* s.lower()
LowerText(s) == [i \in 1..Len(s) |-> Lower(s[i])]

\* s.upper()
UpperText(s) == [i \in 1..Len(s) |-> Upper(s[i])]

\* A value under a local name: Body of v.
With(v, Body(_)) == Body(v)

\* The characters of s at the positions that satisfy Keep, in order.
Pick(s, Keep(_)) ==
    LET at == [i \in 1..Len(s) |-> <<i, s[i]>>]
        Kept(p) == Keep(p[1])
        sel == SelectSeq(at, Kept)
    IN  [j \in 1..Len(sel) |-> sel[j][2]]

\* sep.join(parts)
Join(parts, sep) ==
    Flatten([k \in 1..Len(parts) |-> IF k = 1 THEN parts[k] ELSE sep \o parts[k]])

\* \b of a regular expression, between s[i - 1] and s[i]
Boundary(s, i) ==
    (i > 1 /\ s[i - 1] \in WordChars) # (i <= Len(s) /\ s[i] \in WordChars)

\* Where the literal w matches in s, as re.search(w, s) tries it.
FindExact(s, w) ==
    {i \in 1..(Len(s) - Len(w) + 1) : SubSeq(s, i, i + Len(w) - 1) = w}

\* The same under re.I.
FindAll(s, w) == FindExact(LowerText(s), LowerText(w))

\* re.search(w, s, re.I) for a literal w
Search(s, w) == FindAll(s, w) # {}

\* re.search(r"\bw\b", s, re.I) for a literal w
SearchWord(s, w) ==
    \E i \in FindAll(s, w) : Boundary(s, i) /\ Boundary(s, i + Len(w))

\* How many characters of s from position p on belong to the class.
RunLength(s, p, class) ==
    CHOOSE n \in 0..(Len(s) - p + 1) :
        /\ \A k \in 0..(n - 1) : s[p + k] \in class
        /\ p + n > Len(s) \/ s[p + n] \notin class

\* Lines 120-123: re.sub(r"\s+", " ", t).strip()
clean_text(t) ==
    LET Blank(i) == t[i] \in Whitespace
        Keep(i) == \/ ~Blank(i)
                   \/ /\ i > 1
                      /\ ~Blank(i - 1)
                      /\ \E j \in (i + 1)..Len(t) : ~Blank(j)
        u == Pick(t, Keep)
    IN  [i \in 1..Len(u) |-> IF u[i] \in Whitespace THEN " " ELSE u[i]]

\* int(digits)
DigitValue(c) == CHOOSE d \in 0..9 : Digit(d) = c

RECURSIVE ParseInt(_)
ParseInt(ds) ==
    IF ds = <<>> THEN 0
    ELSE 10 * ParseInt(SubSeq(ds, 1, Len(ds) - 1)) + DigitValue(ds[Len(ds)])

\* float(t.replace(",", "")) for digits with at most one "."
ParseFloat(t) ==
    LET u == Pick(t, LAMBDA i : t[i] # ",")
        dots == {i \in 1..Len(u) : u[i] = "."}
        dot == IF dots = {} THEN Len(u) + 1 ELSE MinOf(dots)
        frac == SubSeq(u, dot + 1, Len(u))
        last == MaxOf({0} \cup {i \in 1..Len(frac) : frac[i] # "0"})
    IN  PyFloat(ParseInt(SubSeq(u, 1, dot - 1)), SubSeq(frac, 1, last))

\* The ways r"\d[\d,]*\.?\d*\b" matches from position i: the length of the
\* [\d,]* part, whether the "." is taken, the length of the last \d* part.
NumberShapes(s, i) ==
    {sh \in (0..RunLength(s, i + 1, DigitChars \cup {","})) \X {0, 1} \X (0..Len(s)) :
        LET p == i + 1 + sh[1]
        IN  /\ sh[2] = 1 => (p <= Len(s) /\ s[p] = ".")
            /\ sh[3] <= RunLength(s, p + sh[2], DigitChars)
            /\ Boundary(s, p + sh[2] + sh[3])}

\* The match the greedy quantifiers settle on: the longest [\d,]*, then the
\* ".", then the longest \d*.
NumberMatch(s, i) ==
    LET shapes == NumberShapes(s, i)
        Better(x, y) ==
            \/ x[1] > y[1]
            \/ x[1] = y[1] /\ x[2] > y[2]
            \/ x[1] = y[1] /\ x[2] = y[2] /\ x[3] >= y[3]
        best == CHOOSE x \in shapes : \A y \in shapes : Better(x, y)
    IN  SubSeq(s, i, i + best[1] + best[2] + best[3])

\* Where r"\b\d[\d,]*\.?\d*\b" can match in s.
NumberStarts(s) ==
    {i \in 1..Len(s) : s[i] \in DigitChars /\ Boundary(s, i) /\ NumberShapes(s, i) # {}}

\* Lines 137-144: extract_numbers(text)[0], or None
first_number(text) ==
    IF NumberStarts(text) = {} THEN PyNone
    ELSE ParseFloat(NumberMatch(text, MinOf(NumberStarts(text))))

\* s.replace(bad, good) for a replacement by one character; no two matches
\* of the patterns below overlap.
Replace(s, bad, good) ==
    LET starts == FindExact(s, bad)
        Covered(i) == \E j \in starts : j < i /\ i < j + Len(bad)
        t == [i \in 1..Len(s) |-> IF i \in starts THEN good ELSE s[i]]
    IN  Pick(t, LAMBDA i : ~Covered(i))

\* Lines 125-135: the replacements in dict order, then clean_text.  A
\* character outside ASCII is named by its code point.
fix_text_encoding(s) ==
    LET r1 == Replace(s, <<"U+00E2","U+20AC","U+2122">>, "U+2019")
        r2 == Replace(r1, <<"U+00E2","U+20AC","U+0153">>, "U+201C")
        r3 == Replace(r2, <<"U+00E2","U+20AC","U+009D">>, "U+201D")
        r4 == Replace(r3, <<"U+00E2","U+20AC","U+201C">>, "U+2013")
        r5 == Replace(r4, <<"U+00E2","U+20AC","U+201D">>, "U+2014")
        r6 == Replace(r5, <<"U+00E2","U+20AC","U+00A2">>, "U+2022")
        r7 == Replace(r6, <<"U+00E2","U+20AC","U+02DC">>, "U+2018")
        r8 == Replace(r7, <<"U+00E2","U+20AC">>, "U+201D")
        r9 == Replace(r8, <<"U+00C2">>, " ")
        r10 == Replace(r9, <<"U+00E2","U+20AC","U+00A6">>, "U+2026")
    IN  clean_text(r10)

\* Lines 146-153
LANGUAGE_MAP ==
    << <<<<"E","N">>, <<"E","n","g","l","i","s","h">>>>, <<<<"E","N","G">>, <<"E","n","g","l",
          "i","s","h">>>>, <<<<"E","N","G","L","I","S","H">>, <<"E","n","g","l","i","s","h">>>>,
       <<<<"B","M">>, <<"M","a","l","a","y">>>>, <<<<"M","S">>, <<"M","a","l","a","y">>>>,
             <<<<"M","A","L","A","Y">>, <<"M","a","l","a","y">>>>,
       <<<<"Z","H">>, <<"C","h","i","n","e","s","e">>>>, <<<<"C","N">>, <<"C","h","i","n","e",
             "s","e">>>>, <<<<"C","H","I","N","E","S","E">>, <<"C","h","i","n","e","s","e">>>>,
       <<<<"E","S">>, <<"S","p","a","n","i","s","h">>>>, <<<<"E","S","P">>, <<"S","p","a","n",
             "i","s","h">>>>, <<<<"S","P","A","N","I","S","H">>, <<"S","p","a","n","i","s",
             "h">>>>,
       <<<<"F","R">>, <<"F","r","e","n","c","h">>>>, <<<<"F","R","E","N","C","H">>, <<"F","r",
             "e","n","c","h">>>>,
       <<<<"D","E">>, <<"G","e","r","m","a","n">>>>, <<<<"G","E","R","M","A","N">>, <<"G","e",
             "r","m","a","n">>>> >>

\* dict.get(key, default) on a sequence of <<key, value>> pairs
Get(map, key, default) ==
    IF \E k \in 1..Len(map) : map[k][1] = key
    THEN map[CHOOSE k \in 1..Len(map) : map[k][1] = key][2]
    ELSE default

\* Lines 155-159
normalize_language_full(term) ==
    LET t == UpperText(clean_text(term))
    IN  IF t = <<>> THEN <<>> ELSE Get(LANGUAGE_MAP, t, clean_text(term))

\* ------------------------------------------------------------------------
\* Filters
\* ------------------------------------------------------------------------

LevelWords == {<<"B","e","g","i","n","n","e","r">>, <<"I","n","t","e","r","m","e","d","i","a",
      "t","e">>, <<"A","d","v","a","n","c","e","d">>, <<"A","l","l"," ","L","e","v","e","l",
      "s">>}

\* Lines 197-198
is_level(s) == \E w \in LevelWords : SearchWord(s, w)

DurationWords ==
    {<<"w","e","e","k">>, <<"w","e","e","k","s">>, <<"h","o","u","r">>, <<"h","o","u","r","s">>,
          <<"h","r">>, <<"h","r","s">>, <<"m","i","n","u","t","e">>, <<"m","i","n","u","t","e",
          "s">>,
     <<"m","i","n">>}

\* Lines 200-201
is_duration(s) == \E w \in DurationWords : SearchWord(s, w)

NoiseLines == {<<"e","x","p","l","o","r","e"," ","m","o","r","e">>, <<"s","t","a","t","u","s",
      ":"," ","p","r","e","v","i","e","w">>, <<"p","r","e","v","i","e","w">>, <<"l","e","a","r",
      "n"," ","m","o","r","e">>}

\* Lines 203-207
is_noise(line) == line = <<>> \/ LowerText(Strip(line)) \in NoiseLines

\* r"\d+\s+modules" matched from position p of l: the position after the
\* match, or 0.
CountOfModules(l, p) ==
    LET d == RunLength(l, p, DigitChars)
        b == RunLength(l, p + d, Whitespace)
        w == <<"m","o","d","u","l","e","s">>
    IN  IF d >= 1 /\ b >= 1 /\ StartsWith(SubSeq(l, p + d + b, Len(l)), w)
        THEN p + d + b + Len(w) ELSE 0

\* Lines 209-213
is_modules_line(line) ==
    /\ line # <<>>
    /\ LET l == LowerText(Strip(line))
       IN  \/ CountOfModules(l, 1) = Len(l) + 1
           \/ \E i \in FindExact(l, <<"t","h","e","r","e"," ","a","r","e">>) :
                 LET p == i + Len(<<"t","h","e","r","e"," ","a","r","e">>)
                     b == RunLength(l, p, Whitespace)
                 IN  b >= 1 /\ CountOfModules(l, p + b) # 0

\* Lines 215-223: each phrase as its literal pieces, ".*" between them
MARKETING_PHRASES ==
    << <<<<"B","u","i","l","d"," ","y","o","u","r"," ","s","u","b","j","e","c","t","-","m","a",
          "t","t","e","r"," ","e","x","p","e","r","t","i","s","e">>>>,
       <<<<"T","h","i","s"," ","c","o","u","r","s","e"," ","i","s"," ","p","a","r","t"," ","o",
             "f"," ","t","h","e"," ">>, <<" ","S","p","e","c","i","a","l","i","z","a","t","i",
             "o","n">>>>,
       <<<<"W","h","e","n"," ","y","o","u"," ","e","n","r","o","l","l"," ","i","n"," ","t","h",
             "i","s"," ","c","o","u","r","s","e",","," ","y","o","u","'","l","l"," ","a","l",
             "s","o"," ","b","e"," ","e","n","r","o","l","l","e","d">>>>,
       <<<<"L","e","a","r","n"," ","n","e","w"," ","c","o","n","c","e","p","t","s"," ","f","r",
             "o","m"," ","i","n","d","u","s","t","r","y"," ","e","x","p","e","r","t","s">>>>,
       <<<<"G","a","i","n"," ","a"," ","f","o","u","n","d","a","t","i","o","n","a","l"," ","u",
             "n","d","e","r","s","t","a","n","d","i","n","g">>>>,
       <<<<"D","e","v","e","l","o","p"," ","j","o","b","-","r","e","l","e","v","a","n","t"," ",
             "s","k","i","l","l","s">>>>,
       <<<<"E","a","r","n"," ","a"," ","s","h","a","r","e","a","b","l","e"," ","c","a","r","e",
             "e","r"," ","c","e","r","t","i","f","i","c","a","t","e">>>> >>

\* re.search(pat, l, re.I) for a phrase of one or two pieces; "." does not
\* match a line end.
SearchPhrase(l, pat) ==
    IF Len(pat) = 1 THEN Search(l, pat[1])
    ELSE \E i \in FindAll(l, pat[1]) : \E j \in FindAll(l, pat[2]) :
            /\ j >= i + Len(pat[1])
            /\ \A k \in (i + Len(pat[1]))..(j - 1) : l[k] # "\n"

\* Lines 225-232
is_marketing(line) ==
    /\ line # <<>>
    /\ \E k \in 1..Len(MARKETING_PHRASES) : SearchPhrase(Strip(line), MARKETING_PHRASES[k])

\* Lines 234-238
is_testimonial(line) ==
    /\ line # <<>>
    /\ \/ SearchWord(Strip(line), <<"L","e","a","r","n","e","r"," ","s","i","n","c","e">>)
       \/ Search(Strip(line), <<"C","o","u","r","s","e","r","a"," ","a","l","l","o","w","s"," ",
             "m","e"," ","t","o"," ","l","e","a","r","n"," ","w","i","t","h","o","u","t"," ",
             "l","i","m","i","t","s">>)

\* re.search(r"\bw\b", s, re.I): the positions of the matches
FindWord(s, w) ==
    {i \in FindAll(s, w) : Boundary(s, i) /\ Boundary(s, i + Len(w))}

\* Line 277
SHORT_MAP ==
    << <<<<"C","a","l","A","r","t","s">>, <<"C","a","l","i","f","o","r","n","i","a"," ","I","n",
          "s","t","i","t","u","t","e"," ","o","f"," ","t","h","e"," ","A","r","t","s">>>>,
       <<<<"M","o","M","A">>, <<"T","h","e"," ","M","u","s","e","u","m"," ","o","f"," ","M","o",
             "d","e","r","n"," ","A","r","t">>>> >>

\* Line 271: re.sub(r"\bOffered by\b.*", "", t, flags=re.I)
CutOfferedBy(t) ==
    LET ob == FindWord(t, <<"O","f","f","e","r","e","d"," ","b","y">>)
    IN  IF ob = {} THEN t ELSE SubSeq(t, 1, MinOf(ob) - 1)

\* Line 272: re.sub(r"\bLearn more\b", "", t, flags=re.I)
CutLearnMore(t) ==
    LET lm == FindWord(t, <<"L","e","a","r","n"," ","m","o","r","e">>)
    IN  Pick(t, LAMBDA i : ~\E j \in lm : j <= i /\ i < j + Len(<<"L","e","a","r","n"," ","m",
          "o","r","e">>))

\* Line 274: re.split(r"[\.•\n]+", t)[0].strip()
FirstSentence(t) ==
    LET cuts == {i \in 1..Len(t) : t[i] \in {".", "U+2022", "\n"}}
    IN  Strip(IF cuts = {} THEN t ELSE SubSeq(t, 1, MinOf(cuts) - 1))

\* Line 276: re.split(r"\s+(has|is)\s+", t)[0].strip()
BeforeVerb(t) ==
    LET verbs == {i \in 1..Len(t) :
                     /\ t[i] \in Whitespace
                     /\ \E w \in {<<"h","a","s">>, <<"i","s">>} :
                           LET p == i + RunLength(t, i, Whitespace)
                           IN  /\ StartsWith(SubSeq(t, p, Len(t)), w)
                               /\ p + Len(w) <= Len(t)
                               /\ t[p + Len(w)] \in Whitespace}
    IN  Strip(IF verbs = {} THEN t ELSE SubSeq(t, 1, MinOf(verbs) - 1))

\* Lines 277-278: SHORT_MAP.get(t, t)
ShortName(t) == Get(SHORT_MAP, t, t)

\* Lines 259-278
extract_offered_by(raw) ==
    IF clean_text(raw) = <<>> THEN <<>>
    ELSE ShortName(BeforeVerb(FirstSentence(CutLearnMore(CutOfferedBy(clean_text(raw))))))

\* Line 291: re.match(r"^\s*Offered by\b", p, flags=re.I)
OfferedByOpener(p) ==
    LET b == RunLength(p, 1, Whitespace)
        w == <<"O","f","f","e","r","e","d"," ","b","y">>
    IN  /\ StartsWith(LowerText(SubSeq(p, b + 1, Len(p))), LowerText(w))
        /\ Boundary(p, b + 1 + Len(w))

\* Line 285: re.split(r"(?<=[.!?])\s+|\n+", text).  Every caller passes a
\* text that clean_text has already collapsed, so a separator is one
\* character.
SplitLines(text) ==
    LET seps == {i \in 1..Len(text) :
                    \/ text[i] = "\n"
                    \/ text[i] \in Whitespace /\ i > 1 /\ text[i - 1] \in {".", "!", "?"}}
        NthSep(k) == IF k = 0 THEN 0
                     ELSE IF k > Cardinality(seps) THEN Len(text) + 1
                     ELSE CHOOSE i \in seps : Cardinality({j \in seps : j < i}) = k - 1
    IN  [k \in 1..(Cardinality(seps) + 1) |->
            SubSeq(text, NthSep(k - 1) + 1, NthSep(k) - 1)]

\* Lines 284-296
filter_lines(text) ==
    LET Kept(p) ==
            /\ p # <<>>
            /\ ~OfferedByOpener(p)
            /\ ~(is_marketing(p) \/ is_testimonial(p))
    IN  clean_text(Join(SelectSeq(SplitLines(text), Kept), <<" ">>))

\* Lines 383-386
score(text) ==
    Len(text)
    - 100 * Cardinality({k \in 1..Len(MARKETING_PHRASES) :
                            SearchPhrase(text, MARKETING_PHRASES[k])})

\* ------------------------------------------------------------------------
\* Documents: what the locators of XPATHS and the CSS selectors find
\* ------------------------------------------------------------------------

\* A content container without nodes in it.
NoContainer == [present |-> FALSE, hs |-> <<>>, lis |-> <<>>, ps |-> <<>>, rest |-> <<>>]

\* A page in which no locator matches.  A text field holds the text_content
\* of the first matching node ("" when there is none); a sequence field
\* holds one entry per matching node.
\*   h2, h3          the //h2 and //h3 elements: their text, the text of
\*                   their parent, and whether a [data-testid="module"]
\*                   element contains them
\*   rating_fallback the font/font descendant of the rating node, and
\*   rating_rest     the text of the rating node after that descendant
\*   time_primary    the node of XPATHS["time_primary"], which is also the
\*                   node of XPATHS["experience_level"] (the same path)
\*   block_rest      the text of the parent block of lines 484 that is in
\*                   none of its rating, time and anchor children
\*   probable_nodes  the nodes of the three probable_xpaths of lines 547-551
\*   json_ld         the description (or about) strings of the JSON-LD
\*                   objects of type Course, CreativeWork or no type
\*   page_rest       the text nodes of the page that no field above holds
PageBlank ==
    [ h1 |-> <<>>, h2 |-> <<>>, h3 |-> <<>>, title_tag |-> <<>>,
      course_category |-> <<>>, course_subcategory |-> <<>>,
      rating_fallback |-> <<>>, rating_rest |-> <<>>,
      language |-> <<>>, html_lang |-> <<>>,
      time_primary |-> <<>>, time_flexible |-> <<>>,
      level_tag |-> <<>>, block_rest |-> <<>>,
      num_modules_span_primary |-> <<>>, num_modules_span_fallback |-> <<>>,
      num_modules_anchor_container |-> <<>>,
      skill_acquire_ul_primary |-> <<>>, skill_acquire_ul_fallback |-> <<>>,
      description_container_primary |-> <<>>, description_container_fallback |-> <<>>,
      description_testid |-> <<>>, json_ld |-> <<>>,
      og_description |-> <<>>, meta_description |-> <<>>,
      num_registered |-> <<>>, num_registered_fallback_instructor |-> <<>>,
      probable_nodes |-> <<<<>>, <<>>, <<>>>>,
      course_content_container_primary |-> NoContainer,
      course_content_container_fallback |-> NoContainer,
      syllabus_items |-> <<>>,
      offered_by_primary |-> <<>>, offered_by_alt |-> <<>>,
      page_rest |-> <<>> ]

\* node.text_content() of the first node of XPATHS[xp]
NodeText(doc, xp) ==
    CASE xp = "title_h1" -> doc.h1
      [] xp = "title_h2" -> IF doc.h2 = <<>> THEN <<>> ELSE doc.h2[1].text
      [] xp = "rating_primary" -> doc.rating_fallback \o doc.rating_rest
      [] xp = "experience_level" -> doc.time_primary
      [] OTHER -> doc[xp]

\* Lines 241-250
xp_text(doc, xp) == clean_text(NodeText(doc, xp))

\* Lines 252-256
xp_norm(doc, xp) == clean_text(NodeText(doc, xp))

\* container.text_content()
ContainerText(c) == Flatten(c.hs \o c.lis \o c.ps) \o c.rest

\* [data-testid="module"] h3
ModuleHeadings(doc) == SelectSeq(doc.h3, LAMBDA h : h.module)

\* Line 484: text_content() of the block around the rating and time nodes
BlockText(doc) ==
    Flatten(doc.num_modules_anchor_container)
    \o NodeText(doc, "rating_primary") \o doc.time_primary \o doc.time_flexible
    \o doc.block_rest

\* soup.get_text(" "): the text nodes of the page, joined by a blank
PageText(doc) ==
    LET heads == [k \in 1..Len(doc.h2) |-> doc.h2[k].block]
                 \o [k \in 1..Len(doc.h3) |-> doc.h3[k].block]
        nodes ==
            <<doc.title_tag, doc.course_category, doc.course_subcategory, doc.h1,
              doc.num_registered>>
            \o doc.num_modules_anchor_container
            \o <<doc.rating_fallback, doc.rating_rest, doc.time_primary,
                 doc.time_flexible, doc.block_rest, doc.level_tag, doc.language>>
            \o Flatten(doc.skill_acquire_ul_primary)
            \o Flatten(doc.skill_acquire_ul_fallback)
            \o heads
            \o <<doc.num_modules_span_primary, doc.num_modules_span_fallback,
                 doc.description_container_primary, doc.description_container_fallback,
                 doc.description_testid, doc.num_registered_fallback_instructor,
                 ContainerText(doc.course_content_container_primary),
                 ContainerText(doc.course_content_container_fallback)>>
            \o doc.syllabus_items
            \o doc.offered_by_primary \o doc.offered_by_alt
            \o Flatten(doc.probable_nodes)
            \o <<doc.page_rest>>
    IN  Join(SelectSeq(nodes, LAMBDA t : t # <<>>), <<" ">>)

\* ------------------------------------------------------------------------
\* extract_description
\* ------------------------------------------------------------------------

\* Lines 314-317
heading_labels ==
    {<<"A","b","o","u","t"," ","t","h","i","s"," ","C","o","u","r","s","e">>, <<"A","b","o","u",
          "t"," ","t","h","e"," ","C","o","u","r","s","e">>, <<"C","o","u","r","s","e"," ","d",
          "e","s","c","r","i","p","t","i","o","n">>,
     <<"W","h","a","t"," ","y","o","u","'","l","l"," ","l","e","a","r","n">>, <<"O","v","e","r",
           "v","i","e","w">>}

\* Mutant: a located text is a candidate whether or not anything is left of
\* it after filtering.
CandidateUnfiltered(label, raw) ==
    IF clean_text(raw) # <<>> THEN << <<label, clean_text(raw)>> >> ELSE <<>>

\* txt = clean_text(...); filtered = filter_lines(txt); if filtered:
\* candidates.append((label, filtered))
Candidate(label, raw) ==
    With(filter_lines(clean_text(raw)),
         LAMBDA filtered : IF filtered # <<>> THEN << <<label, filtered>> >> ELSE <<>>)

\* Lines 318-332: the labelled blocks of the headings of "//h2" and "//h3"
\* whose text is one of heading_labels
HeadingBlocks(hs) ==
    [k \in 1..Len(hs) |-> <<<<"h","e","a","d","i","n","g","_">> \o clean_text(hs[k].text),
          hs[k].block>>]

LabelledHeading(h) == \E hl \in heading_labels : LowerText(clean_text(h.text)) = LowerText(hl)

\* Lines 298-377: the label and the raw text of every source, in the order
\* the sources are tried
Sources(doc) ==
    << <<<<"c","o","n","t","a","i","n","e","r","_","d","i","v","4">>,
          doc.description_container_primary>>,
       <<<<"c","o","n","t","a","i","n","e","r","_","d","i","v","5">>,
             doc.description_container_fallback>> >>
    \o HeadingBlocks(SelectSeq(doc.h2 \o doc.h3, LabelledHeading))
    \o << <<<<"c","s","s","_","d","a","t","a","_","t","e","s","t","i","d">>,
          doc.description_testid>> >>
    \o [k \in 1..Len(doc.json_ld) |-> <<<<"j","s","o","n","_","l","d">>, doc.json_ld[k]>>]
    \o << <<<<"o","g",":","d","e","s","c","r","i","p","t","i","o","n">>, doc.og_description>>,
          <<<<"m","e","t","a",":","d","e","s","c","r","i","p","t","i","o","n">>,
                doc.meta_description>> >>

\* Lines 298-377: the candidates in the order they are appended
CandidatesOf(sources) ==
    Flatten([k \in 1..Len(sources) |-> Candidate(sources[k][1], sources[k][2])])

Candidates(doc) == CandidatesOf(Sources(doc))

\* Mutant: among the candidates of maximal score, the last one.
BestLast(cands) ==
    With([k \in 1..Len(cands) |-> score(cands[k][2])],
         LAMBDA sc : CHOOSE k \in 1..Len(cands) :
                        /\ \A j \in 1..Len(cands) : sc[j] <= sc[k]
                        /\ \A j \in (k + 1)..Len(cands) : sc[j] < sc[k])

\* Line 388: max(candidates, key=...) returns the first maximal item
Best(cands) ==
    With([k \in 1..Len(cands) |-> score(cands[k][2])],
         LAMBDA sc : CHOOSE k \in 1..Len(cands) :
                        /\ \A j \in 1..Len(cands) : sc[j] <= sc[k]
                        /\ \A j \in 1..(k - 1) : sc[j] < sc[k])

\* Lines 281-389: the text and the label of the winner
Winner(cands) ==
    IF cands = <<>> THEN <<<<>>, <<>>>>
    ELSE With(cands[Best(cands)], LAMBDA best : <<best[2], best[1]>>)

extract_description(doc) == Winner(Candidates(doc))

\* ------------------------------------------------------------------------
\* extract_by_xpaths, field by field
\* ------------------------------------------------------------------------

\* "N/A"
NA == <<"N","/","A">>

\* a or b, for str
Or(a, b) == IF a # <<>> THEN a ELSE b

\* Line 424 and line 661
title(doc) ==
    With(Or(xp_text(doc, "title_h1"),
            Or(xp_text(doc, "title_h2"), xp_text(doc, "title_tag"))),
         LAMBDA t : PyStr(IF t # <<>> THEN t ELSE NA))

\* Lines 427 and 662
course_category(doc) ==
    With(xp_norm(doc, "course_category"), LAMBDA t : PyStr(IF t # <<>> THEN t ELSE NA))

\* Lines 428 and 663
course_subcategory(doc) ==
    With(xp_norm(doc, "course_subcategory"), LAMBDA t : PyStr(IF t # <<>> THEN t ELSE NA))

\* Line 433
rating_txt(doc) == Or(xp_text(doc, "rating_primary"), xp_text(doc, "rating_fallback"))

\* Where r"\b(\d\.\d)\b" matches in s (line 437; the optional group after it
\* may match nothing).
DecimalStarts(s) ==
    {i \in 1..(Len(s) - 2) :
        /\ s[i] \in DigitChars /\ s[i + 1] = "." /\ s[i + 2] \in DigitChars
        /\ Boundary(s, i) /\ Boundary(s, i + 3)}

\* Mutant: the rating is read without looking for a duration unit.
rating_valUnguarded(txt) ==
    With(DecimalStarts(txt), LAMBDA m :
    IF txt = <<>> THEN PyNone
    ELSE IF m # {} THEN ParseFloat(SubSeq(txt, MinOf(m), MinOf(m) + 2))
    ELSE first_number(txt))

\* Lines 434-446
rating_val(txt) ==
    With(DecimalStarts(txt), LAMBDA m :
    With(is_duration(txt), LAMBDA has_unit :
    IF txt # <<>> /\ ~has_unit
    THEN IF m # {} THEN ParseFloat(SubSeq(txt, MinOf(m), MinOf(m) + 2))
         ELSE IF ~has_unit THEN first_number(txt) ELSE PyNone
    ELSE PyNone))

\* Line 447
rating(doc) ==
    With(rating_val(rating_txt(doc)), LAMBDA v :
    IF v.type = "float" THEN v ELSE PyStr(NA))

\* Line 454: re.sub(r"^\s*Taught in\s+", "", language_raw, flags=re.I)
DropTaughtIn(s) ==
    LET b == RunLength(s, 1, Whitespace)
        w == <<"T","a","u","g","h","t"," ","i","n">>
        after == b + Len(w) + 1
    IN  IF /\ StartsWith(LowerText(SubSeq(s, b + 1, Len(s))), LowerText(w))
           /\ RunLength(s, after, Whitespace) >= 1
        THEN SubSeq(s, after + RunLength(s, after, Whitespace), Len(s))
        ELSE s

\* Lines 451-455
language(doc) ==
    With(Or(xp_text(doc, "language"), doc.html_lang), LAMBDA located :
    With(IF located # <<>> THEN Strip(DropTaughtIn(located)) ELSE located,
         LAMBDA language_raw :
    PyStr(IF language_raw # <<>> THEN normalize_language_full(language_raw) ELSE NA)))

\* The units of line 398, weeks?|hours?|hrs?|minutes?|mins?, in lower case.
DurationUnits ==
    {<<"w","e","e","k">>, <<"w","e","e","k","s">>, <<"h","o","u","r">>, <<"h","o","u","r","s">>,
          <<"h","r">>, <<"h","r","s">>, <<"m","i","n","u","t","e">>, <<"m","i","n","u","t","e",
          "s">>,
     <<"m","i","n">>, <<"m","i","n","s">>}

\* r"\b(\d{1,3})\s*(weeks?|hours?|hrs?|minutes?|mins?)\b" matched from
\* position i of text under re.I: <<qty, unit>>, or <<>>.  The digits are
\* followed by blanks or by the unit, so group 1 is the whole run of digits;
\* the unit ends at a word boundary, so at most one unit fits.
DurationAt(text, i) ==
    With(RunLength(text, i, DigitChars), LAMBDA d :
    With(i + d + RunLength(text, i + d, Whitespace), LAMBDA p :
    With({u \in DurationUnits :
             /\ StartsWith(LowerText(SubSeq(text, p, Len(text))), u)
             /\ Boundary(text, p + Len(u))},
         LAMBDA units :
    IF Boundary(text, i) /\ d \in 1..3 /\ units # {}
    THEN <<SubSeq(text, i, i + d - 1), CHOOSE u \in units : TRUE>>
    ELSE <<>>)))

\* Lines 402-412: the unit in lower case, singular for the quantity "1".
UnitNorm(qty, unit) ==
    With(qty # <<"1">>, LAMBDA many :
    IF StartsWith(unit, <<"h","r">>) THEN (IF many THEN <<"h","o","u","r","s">> ELSE <<"h","o",
          "u","r">>)
    ELSE IF StartsWith(unit, <<"m","i","n">>) THEN (IF many THEN <<"m","i","n","u","t","e",
          "s">> ELSE <<"m","i","n","u","t","e">>)
    ELSE IF StartsWith(unit, <<"w","e","e","k">>) THEN (IF many THEN <<"w","e","e","k",
          "s">> ELSE <<"w","e","e","k">>)
    ELSE (IF many THEN <<"h","o","u","r","s">> ELSE <<"h","o","u","r">>))

\* Lines 392-415: the first duration phrase of the page text, or "".
extract_duration_from_page(doc) ==
    With(clean_text(PageText(doc)), LAMBDA text :
    With({i \in 1..Len(text) : DurationAt(text, i) # <<>>}, LAMBDA starts :
    IF starts = {} THEN <<>>
    ELSE With(DurationAt(text, MinOf(starts)), LAMBDA m :
         m[1] \o <<" ">> \o UnitNorm(m[1], m[2]))))

\* "Flexible schedule"
FlexibleSchedule == <<"F","l","e","x","i","b","l","e"," ","s","c","h","e","d","u","l","e">>

\* Lines 462-470
time_to_complete(doc) ==
    With(xp_text(doc, "time_primary"), LAMBDA time_txt_primary :
    With(xp_text(doc, "time_flexible"), LAMBDA time_txt_fallback :
    With(IF is_duration(time_txt_primary) THEN time_txt_primary
         ELSE IF is_duration(time_txt_fallback) THEN time_txt_fallback
         ELSE Or(time_txt_fallback, FlexibleSchedule),
         LAMBDA time_txt :
    PyStr(IF time_txt # <<>> THEN clean_text(time_txt) ELSE FlexibleSchedule))))

\* m.group(0) of re.search(r"\b(Beginner|Intermediate|Advanced|All Levels)\b",
\* s, re.I), or "" without a match
LevelFound(s) ==
    With(UNION {FindWord(s, w) : w \in LevelWords},
         LAMBDA at :
            IF at = {} THEN <<>>
            ELSE With(CHOOSE w \in LevelWords : MinOf(at) \in FindWord(s, w),
                      LAMBDA w : SubSeq(s, MinOf(at), MinOf(at) + Len(w) - 1)))

\* Lines 476-493
experience_required(doc) ==
    With(xp_text(doc, "experience_level"), LAMBDA exp_candidate :
    With(IF is_level(exp_candidate) THEN clean_text(exp_candidate) ELSE <<>>,
         LAMBDA first :
    With(IF first = <<>> /\ is_level(doc.level_tag)
         THEN clean_text(doc.level_tag) ELSE first,
         LAMBDA second :
    With(IF second = <<>> THEN LevelFound(clean_text(BlockText(doc))) ELSE second,
         LAMBDA third :
    PyStr(IF third # <<>> THEN third ELSE NA)))))

\* int(x) of an int or a float
int(x) == IF x.type = "float" THEN PyInt(x.v[1]) ELSE x

\* Lines 497-516
num_modules(doc) ==
    With(xp_text(doc, "num_modules_span_primary"), LAMBDA num_modules_span_primary :
    With(IF num_modules_span_primary = <<>>
         THEN xp_text(doc, "num_modules_span_fallback") ELSE <<>>,
         LAMBDA num_modules_span_fallback :
    With(first_number(Or(num_modules_span_primary, num_modules_span_fallback)),
         LAMBDA from_span :
    With(Len(doc.num_modules_anchor_container), LAMBDA num_modules_anchor_count :
    With(IF from_span.type = "None" /\ num_modules_anchor_count > 0
         THEN PyFloat(num_modules_anchor_count, <<>>) ELSE from_span,
         LAMBDA from_anchors :
    With(ModuleHeadings(doc), LAMBDA mod_headings :
    With(IF from_anchors.type = "None"
         THEN IF mod_headings # <<>> THEN PyInt(Len(mod_headings)) ELSE PyNone
         ELSE from_anchors,
         LAMBDA num_modules_val :
    IF num_modules_val.type \in {"int", "float"} THEN int(num_modules_val)
    ELSE PyStr(NA))))))))

\* Lines 522-535
skill_acquire(doc) ==
    With(IF doc.skill_acquire_ul_primary # <<>>
         THEN doc.skill_acquire_ul_primary ELSE doc.skill_acquire_ul_fallback,
         LAMBDA ul_nodes :
    With(Flatten(ul_nodes), LAMBDA lis :
    With([k \in 1..Len(lis) |-> clean_text(lis[k])], LAMBDA texts :
    With(SelectSeq(texts, LAMBDA t : t # <<>> /\ LowerText(t) # <<"v","i","e","w"," ","a","l",
          "l"," ","s","k","i","l","l","s">>),
         LAMBDA skill_items :
    PyStr(IF skill_items # <<>> THEN Join(skill_items, <<";"," ">>) ELSE NA)))))

\* Lines 539-540
description(doc) ==
    With(extract_description(doc)[1], LAMBDA description_txt :
    PyStr(IF description_txt # <<>> THEN fix_text_encoding(description_txt) ELSE NA))

\* Line 541: raw_debug["description_source"]
description_source(doc) == extract_description(doc)[2]

\* How r"\b([\d,]+)\b\s*(learners|students|enrolled)" (re.I) matches from
\* position i: the lengths of group 1 that work.
LearnerLengths(s, i) ==
    {a \in 1..RunLength(s, i, DigitChars \cup {","}) :
        /\ Boundary(s, i + a)
        /\ \E w \in {<<"l","e","a","r","n","e","r","s">>, <<"s","t","u","d","e","n","t","s">>,
              <<"e","n","r","o","l","l","e","d">>} :
              StartsWith(LowerText(SubSeq(s, i + a + RunLength(s, i + a, Whitespace), Len(s))),
                         w)}

\* float(m.group(1).replace(",", "")) for the first match of that pattern:
\* None without a match, an error when the group has no digit.
LearnerCount(s) ==
    With({i \in 1..Len(s) : Boundary(s, i) /\ LearnerLengths(s, i) # {}}, LAMBDA starts :
    IF starts = {} THEN PyNone
    ELSE With(MinOf(starts), LAMBDA i :
         With(SubSeq(s, i, i + MaxOf(LearnerLengths(s, i)) - 1), LAMBDA group :
         IF \A k \in 1..Len(group) : group[k] = ","
         THEN [type |-> "ValueError", v |-> <<>>]
         ELSE ParseFloat(group))))

\* Lines 552-564 for the nodes of one of the probable_xpaths: the first node
\* in which the pattern matches decides; an error leaves this locator.
ProbableCount(nodes) ==
    With([k \in 1..Len(nodes) |-> LearnerCount(clean_text(nodes[k]))], LAMBDA counts :
    With({k \in 1..Len(nodes) : counts[k].type # "None"}, LAMBDA hits :
    IF hits = {} THEN PyNone ELSE counts[MinOf(hits)]))

\* Lines 544-573
num_registered(doc) ==
    With(Or(xp_text(doc, "num_registered"),
            xp_text(doc, "num_registered_fallback_instructor")),
         LAMBDA reg_txt :
    With(first_number(reg_txt), LAMBDA located :
    With([g \in 1..3 |-> ProbableCount(doc.probable_nodes[g])], LAMBDA counts :
    With({g \in 1..3 : counts[g].type = "float"}, LAMBDA found :
    With(IF located.type = "None" /\ found # {} THEN counts[MinOf(found)] ELSE located,
         LAMBDA probable :
    With(IF probable.type = "None" THEN LearnerCount(clean_text(PageText(doc)))
         ELSE PyNone,
         LAMBDA in_page :
    With(IF in_page.type = "float" THEN in_page ELSE probable, LAMBDA reg_val :
    IF reg_val.type = "float" THEN int(reg_val) ELSE PyStr(NA))))))))

\* if t and not is_noise(t) and not is_modules_line(t)
ContentLine(t) == Strip(t) # <<>> /\ ~is_noise(t) /\ ~is_modules_line(t)

CleanAll(texts) == [k \in 1..Len(texts) |-> clean_text(texts[k])]

\* Lines 582-601 for one container
ContainerContent(c) ==
    With(SelectSeq(CleanAll(c.hs) \o CleanAll(c.lis), ContentLine), LAMBDA headed :
    With(IF headed # <<>> THEN headed ELSE SelectSeq(CleanAll(c.ps), ContentLine),
         LAMBDA parts :
    With(clean_text(ContainerText(c)), LAMBDA whole :
    With(IF parts # <<>> THEN parts ELSE IF whole # <<>> THEN <<whole>> ELSE <<>>,
         LAMBDA lines :
    Join(SelectSeq(lines, ContentLine), <<"\n">>)))))

\* Lines 577-607: the text of the first container that has any
StrictContent(containers) ==
    With([k \in 1..Len(containers) |->
             IF containers[k].present THEN ContainerContent(containers[k]) ELSE <<>>],
         LAMBDA texts : Or(texts[1], texts[2]))

\* Lines 577-629
course_content(doc) ==
    With(StrictContent(<<doc.course_content_container_primary,
                         doc.course_content_container_fallback>>),
         LAMBDA strict :
    With(ModuleHeadings(doc), LAMBDA module_headings :
    With(SelectSeq(CleanAll(doc.num_modules_anchor_container)
                   \o CleanAll([k \in 1..Len(module_headings) |-> module_headings[k].text])
                   \o CleanAll(doc.syllabus_items),
                   ContentLine),
         LAMBDA parts_fb :
    With(IF strict # <<>> THEN strict ELSE Join(parts_fb, <<"\n">>),
         LAMBDA course_content_txt :
    PyStr(IF course_content_txt # <<>> THEN course_content_txt ELSE NA)))))

\* How r"Offered by\s*[:\-]?\s*(.+?)\s{2,}$" (re.I) matches from position i:
\* the blanks taken first, whether ":" or "-" is taken, the blanks taken
\* next, and the last position of group 1.
OfferedByShapes(s, i) ==
    LET after == i + Len(<<"O","f","f","e","r","e","d"," ","b","y">>)
    IN  {sh \in (0..RunLength(s, after, Whitespace)) \X {0, 1} \X (0..Len(s)) \X (1..Len(s)) :
            LET c == after + sh[1] + sh[2] + sh[3]
            IN  /\ sh[2] = 1 => (after + sh[1] <= Len(s) /\ s[after + sh[1]] \in {":", "-"})
                /\ sh[3] <= RunLength(s, after + sh[1] + sh[2], Whitespace)
                /\ c <= sh[4]
                /\ \A j \in c..sh[4] : s[j] # "\n"
                /\ Len(s) - sh[4] >= 2
                /\ \A j \in (sh[4] + 1)..Len(s) : s[j] \in Whitespace}

\* Lines 649-652: clean_text(m.group(1)), or "" without a match.  The
\* quantifiers before the group are greedy, the group is lazy.
OfferedByInPage(s) ==
    LET Better(x, y) ==
            \/ x[1] > y[1]
            \/ x[1] = y[1] /\ x[2] > y[2]
            \/ x[1] = y[1] /\ x[2] = y[2] /\ x[3] > y[3]
            \/ x[1] = y[1] /\ x[2] = y[2] /\ x[3] = y[3] /\ x[4] <= y[4]
    IN  With({i \in FindAll(s, <<"O","f","f","e","r","e","d"," ","b","y">>) : OfferedByShapes(s,
          i) # {}}, LAMBDA starts :
        IF starts = {} THEN <<>>
        ELSE With(MinOf(starts), LAMBDA i :
             With(OfferedByShapes(s, i), LAMBDA shapes :
             With(CHOOSE x \in shapes : \A y \in shapes : Better(x, y), LAMBDA best :
             clean_text(SubSeq(s, i + Len(<<"O","f","f","e","r","e","d"," ","b",
                   "y">>) + best[1] + best[2] + best[3],
                               best[4]))))))

\* "Coursera"
Coursera == <<"C","o","u","r","s","e","r","a">>

\* Lines 633-653
offered_by_raw(doc) ==
    With(Or(clean_text(Join(doc.offered_by_primary, <<" ">>)),
            clean_text(Join(doc.offered_by_alt, <<" ">>))),
         LAMBDA located :
    IF located # <<>> THEN located ELSE OfferedByInPage(PageText(doc)))

\* Line 655
offered_by(doc) ==
    With(offered_by_raw(doc), LAMBDA raw :
    PyStr(IF raw # <<>> THEN extract_offered_by(raw) ELSE Coursera))

\* Lines 58-63
COLUMNS ==
    <<"course_url", "title", "course_category", "course_subcategory", "rating",
      "language", "Time to complete", "num_modules", "skill_acquire", "description",
      "experience_required", "num_registered", "course content", "offered_by">>

\* Mutant: a field that no locator resolves is left out of the row.
extract_by_xpathsSparse(doc, url) ==
    ("course_url" :> PyStr(url))
    @@ ("title" :> title(doc))
    @@ (IF rating(doc) = PyStr(NA) THEN <<>> ELSE ("rating" :> rating(doc)))
    @@ ("language" :> language(doc))
    @@ ("Time to complete" :> time_to_complete(doc))
    @@ ("description" :> description(doc))
    @@ ("offered_by" :> offered_by(doc))

\* Lines 418-677: the row
extract_by_xpaths(doc, url) ==
    ("course_url" :> PyStr(url))
    @@ ("title" :> title(doc))
    @@ ("course_category" :> course_category(doc))
    @@ ("course_subcategory" :> course_subcategory(doc))
    @@ ("rating" :> rating(doc))
    @@ ("language" :> language(doc))
    @@ ("Time to complete" :> time_to_complete(doc))
    @@ ("num_modules" :> num_modules(doc))
    @@ ("skill_acquire" :> skill_acquire(doc))
    @@ ("description" :> description(doc))
    @@ ("experience_required" :> experience_required(doc))
    @@ ("num_registered" :> num_registered(doc))
    @@ ("course content" :> course_content(doc))
    @@ ("offered_by" :> offered_by(doc))

\* ------------------------------------------------------------------------
\* The documents the field resolution is checked on
\* ------------------------------------------------------------------------

\* Texts of the rating node: its font/font descendant, and what follows it.
RatingFonts == {<<>>, <<"4",".","8">>, <<"4">>}

RatingRests ==
    {<<>>, <<" ","o","u","t"," ","o","f"," ","5">>, <<" ","w","e","e","k","s">>, <<" ","4"," ",
          "w","e","e","k","s">>, <<" ","s","t","a","r","s">>, <<"4",".","5"," ","h","o","u","r",
          "s">>, <<"T","o","p"," ","r","a","t","e","d">>}

RatingPages ==
    {[PageBlank EXCEPT !.rating_fallback = f, !.rating_rest = r] :
        f \in RatingFonts, r \in RatingRests}

\* Texts of the two time nodes, and a duration elsewhere in the page; with a
\* level tag and more text in the block around the nodes.
TimePages ==
    {[PageBlank EXCEPT !.time_primary = p, !.time_flexible = f, !.page_rest = r] :
        p \in {<<>>, <<"4"," ","w","e","e","k","s">>, <<"B","e","g","i","n","n","e","r"," ","l",
              "e","v","e","l">>},
        f \in {<<>>, <<" ","3"," "," ","h","o","u","r","s">>, <<"F","l","e","x","i","b","l","e",
              " ","s","c","h","e","d","u","l","e">>, <<"I","n","t","e","r","m","e","d","i","a",
              "t","e"," ","l","e","v","e","l">>},
        r \in {<<>>, <<"A","p","p","r","o","x","."," ","2","0"," ","H","R","S"," ","t","o"," ",
              "c","o","m","p","l","e","t","e">>}}

LevelPages ==
    {[PageBlank EXCEPT !.time_primary = p, !.level_tag = t, !.block_rest = b] :
        p \in {<<>>, <<"B","e","g","i","n","n","e","r"," ","l","e","v","e","l">>, <<"4"," ","w",
              "e","e","k","s">>},
        t \in {<<>>, <<"A","d","v","a","n","c","e","d">>, <<"M","i","x","e","d">>},
        b \in {<<>>, <<" ","a","l","l"," ","l","e","v","e","l","s"," ","w","e","l","c","o","m",
              "e">>}}

\* Direct texts of the two provider nodes, and the end of the page text.
ProviderPages ==
    {[PageBlank EXCEPT !.offered_by_primary = p, !.offered_by_alt = a, !.page_rest = r] :
        p \in {<<>>, <<<<"D","u","k","e"," ","U","n","i","v","e","r","s","i","t","y">>>>,
              <<<<"L","e","a","r","n"," ","m","o","r","e">>>>, <<<<"O","f","f","e","r","e","d",
              " ","b","y"," ","Y","a","l","e">>>>,
               <<<<"M","o","M","A">>, <<" ","L","e","a","r","n"," ","m","o","r","e"," ">>>>},
        a \in {<<>>, <<<<"C","a","l","A","r","t","s">>>>},
        r \in {<<>>, <<"O","f","f","e","r","e","d"," ","b","y"," ","I","B","M"," "," ">>}}

\* Sources of the description.
DescriptionPages ==
    {[PageBlank EXCEPT !.description_container_primary = p,
                       !.description_container_fallback = f,
                       !.og_description = o] :
        p \in {<<>>, <<"L","e","a","r","n"," ","S","Q","L",".">>, <<"D","e","v","e","l","o","p",
              " ","j","o","b","-","r","e","l","e","v","a","n","t"," ","s","k","i","l","l","s",
              "."," ","O","f","f","e","r","e","d"," ","b","y"," ","D","u","k","e",".">>},
        f \in {<<>>, <<"S","t","u","d","y"," ","S","Q","L",".">>, <<"L","e","a","r","n"," ","P",
              "y","t","h","o","n"," ","a","n","d"," ","S","Q","L",".">>},
        o \in {<<>>, <<"S","t","u","d","y"," ","S","Q","L",".">>}}
    \cup
    {[PageBlank EXCEPT !.h2 = <<[text |-> <<"O","v","e","r","v","i","e","w">>, block |-> <<"O",
          "v","e","r","v","i","e","w"," ","L","e","a","r","n"," ","R"," ","w","e","l","l",
          ".">>]>>,
                       !.description_testid = t, !.json_ld = j, !.meta_description = m] :
        t \in {<<>>, <<"L","e","a","r","n","e","r"," ","s","i","n","c","e"," ","2","0","1","9",
              "."," ","G","r","e","a","t","!">>},
        j \in {<<>>, <<<<"O","v","e","r","v","i","e","w"," ","R",".">>, <<"L","e","a","r","n",
              " ","R"," ","v","e","r","y"," ","w","e","l","l",".">>>>},
        m \in {<<>>, <<"U+00C2">>, <<"T","h","i","s"," ","c","o","u","r","s","e"," ","i","s",
              " ","p","a","r","t"," ","o","f"," ","t","h","e"," ","A","."," ","B"," ","S","p",
              "e","c","i","a","l","i","z","a","t","i","o","n">>}}

\* Pages for the remaining fields.
PageFull ==
    [PageBlank EXCEPT
        !.h1 = <<"S","Q","L"," ","B","a","s","i","c","s">>,
        !.title_tag = <<"S","Q","L"," ","|"," ","C","o","u","r","s","e","r","a">>,
        !.course_category = <<"D","a","t","a"," ","S","c","i","e","n","c","e">>,
        !.course_subcategory = <<" ","D","a","t","a"," "," ","A","n","a","l","y","s","i","s",
              " ">>,
        !.language = <<"T","a","u","g","h","t"," ","i","n"," ","E","n","g","l","i","s","h">>,
        !.html_lang = <<"e","n">>,
        !.num_modules_span_primary = <<"4"," ","m","o","d","u","l","e","s">>,
        !.skill_acquire_ul_primary = <<<<<<"S","Q","L">>, <<"V","i","e","w"," ","a","l","l"," ",
              "s","k","i","l","l","s">>, <<"J","o","i","n","s">>>>>>,
        !.num_registered = <<"1","2",",","3","4","5">>,
        !.course_content_container_primary =
            [present |-> TRUE, hs |-> <<<<"I","n","t","r","o">>, <<"4"," ","m","o","d","u","l",
                  "e","s">>>>, lis |-> <<<<"J","o","i","n","s">>>>,
             ps |-> <<>>, rest |-> <<>>]]

OtherPages ==
    {PageFull,
     [PageBlank EXCEPT !.h2 = <<[text |-> <<"A","b","o","u","t"," ","t","h","e"," ","C","o","u",
           "r","s","e">>, block |-> <<>>]>>,
                       !.html_lang = <<" ","z","h"," ">>,
                       !.num_modules_span_primary = <<"M","o","d","u","l","e","s">>,
                       !.num_modules_span_fallback = <<"7"," ","m","o","d","u","l","e","s">>,
                       !.skill_acquire_ul_primary = <<<<<<"V","i","e","w"," ","a","l","l"," ",
                             "s","k","i","l","l","s">>>>>>,
                       !.skill_acquire_ul_fallback = <<<<<<"G","i","t">>>>>>,
                       !.num_registered_fallback_instructor = <<"1",",","2","0","0"," ","l","e",
                             "a","r","n","e","r","s">>],
     [PageBlank EXCEPT !.title_tag = <<"S","Q","L">>,
                       !.html_lang = <<" "," "," ">>,
                       !.num_modules_anchor_container = <<<<"I","n","t","r","o">>, <<"J","o",
                             "i","n","s">>>>,
                       !.skill_acquire_ul_fallback = <<<<<<"G","i","t">>, <<"C","I">>>>>>,
                       !.probable_nodes = <<<<<<"a",",","l","e","a","r","n","e","r","s">>,
                             <<"9"," ","l","e","a","r","n","e","r","s">>>>, <<>>,
                                            <<<<"3",",","1","0","0"," ","s","t","u","d","e","n",
                                                  "t","s">>>>>>],
     [PageBlank EXCEPT !.h3 = <<[text |-> <<"W","e","e","k"," ","1">>, block |-> <<>>,
           module |-> TRUE],
                                [text |-> <<"P","r","e","v","i","e","w">>, block |-> <<>>,
                                      module |-> TRUE],
                                [text |-> <<"F","A","Q">>, block |-> <<>>, module |-> FALSE]>>,
                       !.language = <<"D","e","u","t","s","c","h">>,
                       !.syllabus_items = <<<<"Q","u","i","z">>>>,
                       !.page_rest = <<"J","o","i","n"," ","5",",","0","0","0"," ","a","l","r",
                             "e","a","d","y"," ","e","n","r","o","l","l","e","d">>],
     [PageBlank EXCEPT !.course_content_container_primary =
                           [present |-> TRUE, hs |-> <<<<"P","r","e","v","i","e","w">>>>,
                                 lis |-> <<>>,
                            ps |-> <<>>, rest |-> <<>>],
                       !.course_content_container_fallback =
                           [present |-> TRUE, hs |-> <<>>, lis |-> <<>>,
                            ps |-> <<<<"R","e","a","d"," ","t","h","i","s",".">>>>,
                                  rest |-> <<" ","M","o","r","e">>]]}

Pages ==
    RatingPages \cup TimePages \cup LevelPages \cup ProviderPages \cup DescriptionPages
    \cup OtherPages

\* The URL of the page.
CourseUrl == Origin \o HrefA

\* ------------------------------------------------------------------------
\* Field resolution as a state machine: a document, then its row
\* ------------------------------------------------------------------------

FieldsInit ==
    /\ HarvesterInit
    /\ site = 1
    /\ html_text \in Pages
    /\ row = NoRow
    /\ raw_debug = <<>>
    /\ MainIdle

\* Lines 418-677: main calls extract_by_xpaths on the document.
ExtractByXpaths ==
    /\ html_text # NoPage
    /\ row = NoRow
    /\ row' = extract_by_xpaths(html_text, CourseUrl)
    /\ raw_debug' = [description_source |-> description_source(html_text)]
    /\ UNCHANGED <<html_text, harvesterVars, mainVars>>

FieldsNext == ExtractByXpaths

FieldsSpec == FieldsInit /\ [][FieldsNext]_vars

\* ------------------------------------------------------------------------
\* Properties of the field resolution
\* ------------------------------------------------------------------------

\* The raw texts of the three provider strategies (lines 633-653).
ProviderTexts(doc) ==
    <<clean_text(Join(doc.offered_by_primary, <<" ">>)),
      clean_text(Join(doc.offered_by_alt, <<" ">>)),
      OfferedByInPage(PageText(doc))>>

\* The raw texts of the two rating strategies.
RatingTexts(doc) == <<xp_text(doc, "rating_primary"), xp_text(doc, "rating_fallback")>>

\* The raw texts of the two duration strategies.
TimeTexts(doc) == <<xp_text(doc, "time_primary"), xp_text(doc, "time_flexible")>>

\* The value each of the three level strategies yields ("" when its text is
\* not a level).
LevelValues(doc) ==
    <<IF is_level(xp_text(doc, "experience_level"))
      THEN xp_text(doc, "experience_level") ELSE <<>>,
      IF is_level(doc.level_tag) THEN clean_text(doc.level_tag) ELSE <<>>,
      LevelFound(clean_text(BlockText(doc)))>>

\* C11 -- Sentinel guarantee: in the row extract_by_xpaths returns, no text
\* field is the empty string, and a field none of whose strategies yields a
\* text that passes the field's validator holds the field's default: "N/A"
\* for the rating and the level, "Flexible schedule" for the duration,
\* "Coursera" for the provider (also when a located provider text normalizes
\* to nothing).
C11_SentinelGuarantee ==
    row # NoRow =>
        /\ \A c \in DOMAIN row : row[c].type = "str" => row[c].v # <<>>
        /\ (\A k \in 1..2 : ~is_duration(TimeTexts(html_text)[k]))
              => row["Time to complete"] = PyStr(FlexibleSchedule)
        /\ (\A k \in 1..3 : extract_offered_by(ProviderTexts(html_text)[k]) = <<>>)
              => row["offered_by"] = PyStr(Coursera)
        /\ (\A k \in 1..2 : rating_val(RatingTexts(html_text)[k]).type # "float")
              => row["rating"] = PyStr(NA)
        /\ (\A k \in 1..3 : LevelValues(html_text)[k] = <<>>)
              => row["experience_required"] = PyStr(NA)

\* C12 -- Fallback monotonicity: when the first-listed strategy of a field
\* yields a text that passes the validator, the field is that text
\* normalized, whatever the later strategies yield; for the description, a
\* primary container that filters to a non-empty text is the description.
C12_FallbackMonotonicity ==
    row # NoRow =>
        LET doc == html_text
            primary_description == filter_lines(xp_text(doc, "description_container_primary"))
        IN  /\ rating_val(RatingTexts(doc)[1]).type = "float"
                  => row["rating"] = rating_val(RatingTexts(doc)[1])
            /\ is_duration(TimeTexts(doc)[1])
                  => row["Time to complete"] = PyStr(TimeTexts(doc)[1])
            /\ LevelValues(doc)[1] # <<>>
                  => row["experience_required"] = PyStr(LevelValues(doc)[1])
            /\ extract_offered_by(ProviderTexts(doc)[1]) # <<>>
                  => row["offered_by"] = PyStr(extract_offered_by(ProviderTexts(doc)[1]))
            /\ first_number(xp_text(doc, "num_modules_span_primary")).type = "float"
                  => row["num_modules"] = int(first_number(xp_text(doc,
                        "num_modules_span_primary")))
            /\ primary_description # <<>>
                  => row["description"] = PyStr(fix_text_encoding(primary_description))

\* C13 -- Scoring determinism: the description is the candidate of maximal
\* score (length minus 100 per matched marketing phrase) that comes first in
\* the order primary container, secondary container, heading blocks,
\* data-testid block, JSON-LD, og:description, meta description: every
\* candidate before the winner scores strictly less, none scores more, and
\* the label reported is the winner's.
C13_ScoringDeterminism ==
    (row # NoRow /\ Candidates(html_text) # <<>>) =>
        LET cands == Candidates(html_text)
        IN  \E k \in 1..Len(cands) :
                /\ raw_debug.description_source = cands[k][1]
                /\ row["description"] = PyStr(fix_text_encoding(cands[k][2]))
                /\ \A j \in 1..Len(cands) : score(cands[j][2]) <= score(cands[k][2])
                /\ \A j \in 1..(k - 1) : score(cands[j][2]) < score(cands[k][2])
                /\ \A j \in 1..(k - 1) : cands[j] # cands[k]

\* A row has been extracted from a page with several candidates of the same
\* maximal score from different sources.
C13_Witness ==
    /\ row # NoRow
    /\ LET cands == Candidates(html_text)
       IN  \E j, k \in 1..Len(cands) :
              /\ j < k
              /\ cands[j][1] # cands[k][1]
              /\ score(cands[j][2]) = score(cands[k][2])
              /\ \A i \in 1..Len(cands) : score(cands[i][2]) <= score(cands[k][2])

\* C14 -- Rating/duration disambiguation: when the text the rating is read
\* from contains a duration unit (week, weeks, hour, hours, hr, hrs, minute,
\* minutes, min) the rating is "N/A", never a number; when it contains no
\* such unit and a one-digit decimal, the rating is that decimal.
C14_RatingDurationDisambiguation ==
    row # NoRow =>
        LET txt == rating_txt(html_text)
        IN  /\ is_duration(txt) => row["rating"] = PyStr(NA)
            /\ (~is_duration(txt) /\ DecimalStarts(txt) # {})
                  => row["rating"] =
                        PyFloat(DigitValue(txt[MinOf(DecimalStarts(txt))]),
                                IF txt[MinOf(DecimalStarts(txt)) + 2] = "0" THEN <<>>
                                ELSE <<txt[MinOf(DecimalStarts(txt)) + 2]>>)

\* The rating was resolved from "4 weeks", and from "4.8 out of 5".
C14_Witness ==
    /\ row # NoRow
    /\ rating_txt(html_text) \in {<<"4"," ","w","e","e","k","s">>, <<"4",".","8"," ","o","u",
          "t"," ","o","f"," ","5">>}

\* The default of each column.
Sentinel(c) ==
    CASE c = "course_url" -> PyStr(CourseUrl)
      [] c = "Time to complete" -> PyStr(FlexibleSchedule)
      [] c = "offered_by" -> PyStr(Coursera)
      [] OTHER -> PyStr(NA)

\* C15 -- Record completeness: the row extract_by_xpaths returns has exactly
\* the 14 columns of COLUMNS as its keys, each holding a str, an int or a
\* float; for the page in which no locator matches every column holds its
\* default.
C15_RecordCompleteness ==
    row # NoRow =>
        /\ DOMAIN row = Range(COLUMNS)
        /\ Cardinality(DOMAIN row) = 14
        /\ \A c \in Range(COLUMNS) : row[c].type \in {"str", "int", "float"}
        /\ html_text = PageBlank => \A c \in Range(COLUMNS) : row[c] = Sentinel(c)

\* The row of the page in which no locator matches.
C15_Witness == row # NoRow /\ html_text = PageBlank

\* Every line of the text is a marketing phrase, a testimonial, or opens
\* with "Offered by".
AllLinesDropped(text) ==
    LET lines == SplitLines(clean_text(text))
    IN  \A k \in 1..Len(lines) :
            \/ lines[k] = <<>>
            \/ is_marketing(lines[k])
            \/ is_testimonial(lines[k])
            \/ OfferedByOpener(lines[k])

\* The description sources the page has: label and raw text.
Located(doc) ==
    LET heads == Range(doc.h2) \cup Range(doc.h3)
    IN  {s \in {<<<<"c","o","n","t","a","i","n","e","r","_","d","i","v","4">>,
          doc.description_container_primary>>,
                <<<<"c","o","n","t","a","i","n","e","r","_","d","i","v","5">>,
                      doc.description_container_fallback>>,
                <<<<"c","s","s","_","d","a","t","a","_","t","e","s","t","i","d">>,
                      doc.description_testid>>,
                <<<<"o","g",":","d","e","s","c","r","i","p","t","i","o","n">>,
                      doc.og_description>>,
                <<<<"m","e","t","a",":","d","e","s","c","r","i","p","t","i","o","n">>,
                      doc.meta_description>>}
               \cup {<<<<"j","s","o","n","_","l","d">>,
                     doc.json_ld[k]>> : k \in 1..Len(doc.json_ld)}
               \cup {<<<<"h","e","a","d","i","n","g","_">> \o clean_text(h.text), h.block>> :
                        h \in {x \in heads : \E hl \in heading_labels :
                                  LowerText(clean_text(x.text)) = LowerText(hl)}} :
            clean_text(s[2]) # <<>>}

\* C16 -- Description filtering: a located description source whose lines
\* are all marketing phrases, testimonials or "Offered by" lines is not the
\* winning source, and when every located source is of that kind the
\* description is "N/A" and there is no winning source.
C16_DescriptionFiltering ==
    row # NoRow =>
        LET dropped == {s \in Located(html_text) : AllLinesDropped(s[2])}
        IN  /\ \A s \in dropped :
                  (\A t \in Located(html_text) \ dropped : t[1] # s[1])
                      => raw_debug.description_source # s[1]
            /\ \A c \in DOMAIN row :
                  c = "description" /\ dropped = Located(html_text)
                      => row[c] = PyStr(NA) /\ raw_debug.description_source = <<>>

\* The only description source of the page is a primary container of
\* marketing and "Offered by" lines.
C16_Witness ==
    /\ row # NoRow
    /\ Cardinality(Located(html_text)) = 1
    /\ \E s \in Located(html_text) : s[1] = <<"c","o","n","t","a","i","n","e","r","_","d","i",
          "v","4">> /\ AllLinesDropped(s[2])

\* The items of a skill list that pass the test of line 530.
SkillItems(uls) ==
    SelectSeq(CleanAll(Flatten(uls)), LAMBDA t : t # <<>> /\ LowerText(t) # <<"v","i","e","w",
          " ","a","l","l"," ","s","k","i","l","l","s">>)

\* C20 -- Validation-then-fallback: the strategies of a field are consulted
\* in order and a strategy whose text fails the validator is skipped, so
\* when exactly one strategy yields a text that passes the validator the
\* field is that text; for the rating: a primary text with a duration unit
\* and a valid fallback text give the fallback's value.
C20_ValidationThenFallback ==
    row # NoRow =>
        LET doc == html_text
            ratings == {k \in 1..2 : rating_val(RatingTexts(doc)[k]).type = "float"}
            times == {k \in 1..2 : is_duration(TimeTexts(doc)[k])}
            levels == {k \in 1..3 : LevelValues(doc)[k] # <<>>}
            providers == {k \in 1..3 : extract_offered_by(ProviderTexts(doc)[k]) # <<>>}
            skills == <<SkillItems(doc.skill_acquire_ul_primary),
                        SkillItems(doc.skill_acquire_ul_fallback)>>
            skilled == {k \in 1..2 : skills[k] # <<>>}
        IN  /\ \A k \in ratings :
                  ratings = {k} => row["rating"] = rating_val(RatingTexts(doc)[k])
            /\ \A k \in times :
                  times = {k} => row["Time to complete"] = PyStr(TimeTexts(doc)[k])
            /\ \A k \in levels :
                  levels = {k} => row["experience_required"] = PyStr(LevelValues(doc)[k])
            /\ \A k \in providers :
                  providers = {k}
                      => row["offered_by"] = PyStr(extract_offered_by(ProviderTexts(doc)[k]))
            /\ \A k \in skilled :
                  skilled = {k} => row["skill_acquire"] = PyStr(Join(skills[k], <<";"," ">>))

\* What the duration chain yields: the primary text if it is a duration,
\* else the secondary text if it is one, else the phrase of the whole-page
\* scan, else "Flexible schedule".
DurationChain(doc) ==
    IF is_duration(TimeTexts(doc)[1]) THEN TimeTexts(doc)[1]
    ELSE IF is_duration(TimeTexts(doc)[2]) THEN TimeTexts(doc)[2]
    ELSE IF extract_duration_from_page(doc) # <<>> THEN extract_duration_from_page(doc)
    ELSE FlexibleSchedule

\* C21 -- Duration chain: "Time to complete" is the primary text when that
\* is a duration, else the secondary text when that is a duration, else the
\* first <digits><unit> phrase of the page (extract_duration_from_page),
\* else "Flexible schedule"; a secondary text that is not a duration is
\* never the value.
C21_DurationChain ==
    row # NoRow =>
        /\ row["Time to complete"] = PyStr(DurationChain(html_text))
        /\ (TimeTexts(html_text)[2] # FlexibleSchedule /\ ~is_duration(TimeTexts(html_text)[2]))
              => row["Time to complete"] # PyStr(TimeTexts(html_text)[2])

\* What the module-count chain yields: the first number of the first label
\* text that has one, else the number of tiles, else the number of
\* module-card headings, else "N/A".
ModuleChain(doc) ==
    With(first_number(xp_text(doc, "num_modules_span_primary")), LAMBDA from_primary :
    With(first_number(xp_text(doc, "num_modules_span_fallback")), LAMBDA from_secondary :
    IF from_primary.type = "float" THEN int(from_primary)
    ELSE IF from_secondary.type = "float" THEN int(from_secondary)
    ELSE IF Len(doc.num_modules_anchor_container) > 0
         THEN PyInt(Len(doc.num_modules_anchor_container))
    ELSE IF Len(ModuleHeadings(doc)) > 0 THEN PyInt(Len(ModuleHeadings(doc)))
    ELSE PyStr(NA)))

\* C22 -- Module-count chain: num_modules is the first number of the first
\* of the primary and secondary label texts that contains a number (a
\* primary text without a number does not block the secondary); without
\* one it is the count of tiles when positive, else the count of
\* module-card headings when positive, else "N/A"; it is always an integer
\* or "N/A".
C22_ModuleCountChain ==
    row # NoRow =>
        /\ row["num_modules"] = ModuleChain(html_text)
        /\ row["num_modules"].type = "int" \/ row["num_modules"] = PyStr(NA)

\* ------------------------------------------------------------------------
\* The scraper script: configuration, the server, the worksheet
\* ------------------------------------------------------------------------

\* Line 51: REQUEST_DELAY_SEC = 2.0, in seconds
REQUEST_DELAY_SEC == 2

\* Line 52
MAX_RETRIES == 3

\* Line 53
ENABLE_SHEETS == TRUE

\* Line 55
BATCH_SIZE == 5

\* Longest URLs file of the model.
MaxUrls == 6

UrlA == Origin \o HrefA

UrlB == Origin \o HrefB

\* URLS_FILE: a comment line, then n lines of one URL each.
UrlsFile(n) ==
    [lines |-> <<CommentPrefix \o <<" ","l","i","n","k","s">>>>
               \o [k \in 1..n |-> IF k % 2 = 1 THEN UrlA ELSE UrlB],
     tail |-> <<>>]

\* What session.get can do: a response with a status code, or a
\* requests.RequestException.
Responses ==
    {[raised |-> FALSE, status_code |-> c] : c \in {200, 299, 300, 403, 429}}
    \cup {[raised |-> TRUE, status_code |-> 0]}

\* resp.text of a 2xx response: the course page, or an empty body.
Bodies(url) == {IF url = UrlA THEN PageFull ELSE PageBlank, NoPage}

\* Line 180: 200 <= resp.status_code < 300
Is2xx(resp) == ~resp.raised /\ 200 <= resp.status_code /\ resp.status_code < 300

\* Mutant: every failed attempt is followed by the same delay.
SleepConstant(resp, attempt) == REQUEST_DELAY_SEC

\* Lines 182-187: the argument of time.sleep after a failed attempt.
Sleep(resp, attempt) ==
    IF resp.raised THEN REQUEST_DELAY_SEC * attempt
    ELSE IF resp.status_code \in {403, 429} THEN REQUEST_DELAY_SEC * attempt
    ELSE REQUEST_DELAY_SEC

\* Lines 709-714, append_rows: the values of the rows, column by column.
Values(rows) ==
    [k \in 1..Len(rows) |->
        [c \in 1..Len(COLUMNS) |->
            LET v == IF COLUMNS[c] \in DOMAIN rows[k]
                     THEN rows[k][COLUMNS[c]]
                     ELSE PyStr(<<>>)
            IN  IF v = PyStr(<<>>) \/ v = PyNone THEN PyStr(NA) ELSE v]]

\* ------------------------------------------------------------------------
\* main of the scraper, step by step
\* ------------------------------------------------------------------------

\* Lines 870-873: the URLs are loaded.
MainInit ==
    /\ HarvesterInit
    /\ site = 1
    /\ html_text = NoPage
    /\ row = NoRow
    /\ raw_debug = <<>>
    /\ urls \in {load_urls(UrlsFile(n)) : n \in 0..MaxUrls}
    /\ main_pc = "sheets"
    /\ url_idx = 0
    /\ ENABLE_SHEETS_FLAG = FALSE
    /\ batch = <<>>
    /\ sheet = <<>>
    /\ fetch_log = <<>>
    /\ attempted = <<>>
    /\ exc = ""
    /\ extracted = <<>>
    /\ sink_raised = FALSE

\* Lines 875-887: the worksheet is opened, or Sheets is disabled with a
\* warning.
SinkSetup ==
    /\ main_pc = "sheets"
    /\ \E ok \in BOOLEAN : ENABLE_SHEETS_FLAG' = (ENABLE_SHEETS /\ ok)
    /\ main_pc' = "for"
    /\ UNCHANGED <<harvesterVars, fieldVars, urls, url_idx, batch, sheet,
                   fetch_log, attempted, exc>>
    /\ UNCHANGED <<extracted, sink_raised>>

\* Lines 888-891: the for loop takes the next URL and calls fetch_url, or
\* ends.
NextUrl ==
    /\ main_pc = "for"
    /\ IF url_idx < Len(urls)
       THEN /\ url_idx' = url_idx + 1
            /\ attempted' = Append(attempted, url_idx + 1)
            /\ fetch_log' = <<>>
            /\ html_text' = NoPage
            /\ row' = NoRow
            /\ raw_debug' = <<>>
            /\ main_pc' = "fetch_url"
       ELSE /\ main_pc' = "flush"
            /\ UNCHANGED <<url_idx, attempted, fetch_log, fieldVars>>
    /\ UNCHANGED <<harvesterVars, urls, ENABLE_SHEETS_FLAG, batch, sheet, exc>>
    /\ UNCHANGED <<extracted, sink_raised>>

\* Lines 175-187: one attempt of fetch_url.
FetchAttempt ==
    /\ main_pc = "fetch_url"
    /\ Len(fetch_log) < MAX_RETRIES
    /\ \E resp \in Responses :
          IF Is2xx(resp)
          THEN /\ fetch_log' = Append(fetch_log, [resp |-> resp, slept |-> 0])
               /\ html_text' \in Bodies(urls[url_idx])
               /\ main_pc' = "extract"
          ELSE /\ fetch_log' =
                     Append(fetch_log,
                            [resp |-> resp,
                             slept |-> Sleep(resp, Len(fetch_log) + 1)])
               /\ UNCHANGED <<html_text, main_pc>>
    /\ UNCHANGED <<harvesterVars, row, raw_debug, urls, url_idx,
                   ENABLE_SHEETS_FLAG, batch, sheet, attempted, exc>>
    /\ UNCHANGED <<extracted, sink_raised>>

\* Line 188: the attempts are used up.
FetchFailed ==
    /\ main_pc = "fetch_url"
    /\ Len(fetch_log) >= MAX_RETRIES
    /\ exc' = "RuntimeError"
    /\ main_pc' = "except"
    /\ UNCHANGED <<harvesterVars, fieldVars, urls, url_idx,
                   ENABLE_SHEETS_FLAG, batch, sheet, fetch_log, attempted>>
    /\ UNCHANGED <<extracted, sink_raised>>

\* Lines 893-895: the row is extracted and joins the batch; lxml raises on
\* an empty document (line 419).
ExtractRow ==
    /\ main_pc = "extract"
    /\ IF html_text = NoPage
       THEN /\ exc' = "ParserError"
            /\ main_pc' = "except"
            /\ UNCHANGED <<row, raw_debug, batch, extracted>>
       ELSE /\ row' = extract_by_xpaths(html_text, urls[url_idx])
            /\ raw_debug' =
                  [description_source |-> description_source(html_text)]
            /\ batch' = Append(batch, row')
            /\ extracted' = Append(extracted, [i |-> url_idx, row |-> row'])
            /\ main_pc' = "debug"
            /\ UNCHANGED exc
    /\ fetch_log' = <<>>
    /\ UNCHANGED <<harvesterVars, html_text, urls, url_idx,
                   ENABLE_SHEETS_FLAG, sheet, attempted, sink_raised>>

\* Lines 897-912: the raw and the debug HTML are written, or the write
\* raises.
SaveDebug ==
    /\ main_pc = "debug"
    /\ \E ok \in BOOLEAN :
          IF ok
          THEN main_pc' = "push" /\ UNCHANGED exc
          ELSE main_pc' = "except" /\ exc' = "OSError"
    /\ UNCHANGED <<harvesterVars, fieldVars, urls, url_idx,
                   ENABLE_SHEETS_FLAG, batch, sheet, fetch_log, attempted>>
    /\ UNCHANGED <<extracted, sink_raised>>

\* Lines 914-919: a full batch is appended to the worksheet, or the append
\* raises.
PushBatch ==
    /\ main_pc = "push"
    /\ IF ENABLE_SHEETS_FLAG /\ Len(batch) >= BATCH_SIZE
       THEN \E ok \in BOOLEAN :
               IF ok
               THEN /\ sheet' = Append(sheet, Values(batch))
                    /\ batch' = <<>>
                    /\ main_pc' = "for"
                    /\ UNCHANGED <<exc, sink_raised>>
               ELSE /\ exc' = "APIError"
                    /\ sink_raised' = TRUE
                    /\ main_pc' = "except"
                    /\ UNCHANGED <<sheet, batch>>
       ELSE /\ main_pc' = "for"
            /\ UNCHANGED <<sheet, batch, exc, sink_raised>>
    /\ UNCHANGED <<harvesterVars, fieldVars, urls, url_idx,
                   ENABLE_SHEETS_FLAG, fetch_log, attempted, extracted>>

\* Mutant: the exception of an iteration leaves the loop.
ExceptAborts ==
    /\ main_pc = "except"
    /\ main_pc' = "raised"
    /\ UNCHANGED <<harvesterVars, fieldVars, urls, url_idx, ENABLE_SHEETS_FLAG,
                   batch, sheet, fetch_log, attempted, exc>>
    /\ UNCHANGED <<extracted, sink_raised>>

\* Lines 920-923: the exception of the iteration is printed.
Except ==
    /\ main_pc = "except"
    /\ fetch_log' = <<>>
    /\ exc' = ""
    /\ main_pc' = "for"
    /\ UNCHANGED <<harvesterVars, fieldVars, urls, url_idx,
                   ENABLE_SHEETS_FLAG, batch, sheet, attempted>>
    /\ UNCHANGED <<extracted, sink_raised>>

\* Lines 925-928: what is left of the batch is appended, outside any try.
FinalFlush ==
    /\ main_pc = "flush"
    /\ IF ENABLE_SHEETS_FLAG /\ batch # <<>>
       THEN \E ok \in BOOLEAN :
               IF ok
               THEN /\ sheet' = Append(sheet, Values(batch))
                    /\ main_pc' = "done"
                    /\ UNCHANGED <<exc, sink_raised>>
               ELSE /\ exc' = "APIError"
                    /\ sink_raised' = TRUE
                    /\ main_pc' = "raised"
                    /\ UNCHANGED sheet
       ELSE /\ main_pc' = "done"
            /\ UNCHANGED <<sheet, exc, sink_raised>>
    /\ UNCHANGED <<harvesterVars, fieldVars, urls, url_idx,
                   ENABLE_SHEETS_FLAG, batch, fetch_log, attempted, extracted>>

MainNext ==
    \/ SinkSetup
    \/ NextUrl
    \/ FetchAttempt
    \/ FetchFailed
    \/ ExtractRow
    \/ SaveDebug
    \/ PushBatch
    \/ Except
    \/ FinalFlush

MainSpec == MainInit /\ [][MainNext]_vars

\* ------------------------------------------------------------------------
\* Properties of main and of fetch_url
\* ------------------------------------------------------------------------

\* C17 -- Per-URL failure isolation: whatever fails while a URL is fetched,
\* extracted, written to the debug files or pushed, the loop goes on: the
\* URLs attempted so far are the first url_idx URLs of the list, each
\* once and in list order, and main is past its loop only when every URL
\* has been attempted.
C17_PerUrlFailureIsolation ==
    /\ attempted = [k \in 1..url_idx |-> k]
    /\ url_idx <= Len(urls)
    /\ main_pc \in {"flush", "done", "raised"} => Len(attempted) = Len(urls)
    /\ main_pc = "except" => exc # ""

\* The first of two URLs failed before it gave a row, and the row of the
\* second one is all the worksheet has got.
C17_Witness ==
    /\ main_pc = "done"
    /\ Len(urls) = 2
    /\ sheet = << Values(<<extract_by_xpaths(PageBlank, UrlB)>>) >>

\* C18 -- Sink failures are never fatal: main never ends by an exception of
\* the worksheet, and a run whose worksheet could not be opened appends
\* nothing.
C18_SinkFailuresNeverFatal ==
    /\ main_pc # "raised"
    /\ (main_pc # "sheets" /\ ~ENABLE_SHEETS_FLAG) => sheet = <<>>

\* A response with a 2xx status.
Success(resp) == ~resp.raised /\ resp.status_code \in 200..299

\* C19 -- Bounded fetch retry: fetch_url makes at most MAX_RETRIES attempts;
\* no attempt follows a 2xx response, which is returned without a sleep;
\* a 403, a 429 or a request exception is followed by a sleep of
\* REQUEST_DELAY_SEC times the attempt number, any other status by a sleep
\* of REQUEST_DELAY_SEC; fetch_url raises only after MAX_RETRIES failed
\* attempts, and returns only after a 2xx response.
C19_BoundedFetchRetry ==
    /\ Len(fetch_log) <= MAX_RETRIES
    /\ \A k \in 1..Len(fetch_log) :
          /\ k < Len(fetch_log) => ~Success(fetch_log[k].resp)
          /\ Success(fetch_log[k].resp) =>
                fetch_log[k].slept = 0 /\ main_pc = "extract"
          /\ (fetch_log[k].resp.raised \/ fetch_log[k].resp.status_code \in {403, 429}) =>
                fetch_log[k].slept = REQUEST_DELAY_SEC * k
          /\ (/\ ~fetch_log[k].resp.raised
              /\ fetch_log[k].resp.status_code \notin {403, 429}
              /\ ~Success(fetch_log[k].resp)) =>
                fetch_log[k].slept = REQUEST_DELAY_SEC
    /\ exc = "RuntimeError" =>
          /\ Len(fetch_log) = MAX_RETRIES
          /\ \A k \in 1..MAX_RETRIES : ~Success(fetch_log[k].resp)
    /\ main_pc = "extract" =>
          fetch_log # <<>> /\ Success(fetch_log[Len(fetch_log)].resp)

\* fetch_url has raised after a 403, a 429 and a 300, having slept 2, 4 and
\* 2 seconds.
C19_Witness ==
    /\ exc = "RuntimeError"
    /\ [k \in 1..Len(fetch_log) |-> fetch_log[k].resp.status_code] = <<403, 429, 300>>
    /\ [k \in 1..Len(fetch_log) |-> fetch_log[k].slept] = <<2, 4, 2>>

\* The worksheet was opened and no append_rows call has raised.
SinkSound == ENABLE_SHEETS_FLAG /\ ~sink_raised

\* The rows extracted so far, as append_rows writes them.
ExtractedValues == Values([k \in 1..Len(extracted) |-> extracted[k].row])

\* C25 -- Exactly-once sink delivery: while the worksheet is open and no
\* append has raised, the rows appended so far followed by the pending
\* batch are the rows extracted so far, each once and in URL order, and
\* when main is done all of them are appended; every append but the last
\* carries BATCH_SIZE rows and none carries more; a URL iteration starts
\* with fewer than BATCH_SIZE rows pending.
C25_ExactlyOnceSinkDelivery ==
    SinkSound =>
        /\ \A k \in 1..Len(extracted) : \A l \in (k + 1)..Len(extracted) :
              extracted[k].i < extracted[l].i
        /\ main_pc \notin {"sheets",
              "done"} => Flatten(sheet) \o Values(batch) = ExtractedValues
        /\ main_pc = "done" => Flatten(sheet) = ExtractedValues
        /\ \A p \in 1..Len(sheet) :
              /\ Len(sheet[p]) <= BATCH_SIZE
              /\ (p < Len(sheet) \/ main_pc # "done") => Len(sheet[p]) = BATCH_SIZE
        /\ (main_pc = "for" /\ url_idx < Len(urls)) => Len(batch) < BATCH_SIZE

====
